---------------------------- MODULE Spec2Model ----------------------------
(***************************************************************************)
(* POS backend: the order / customer mirror pipeline between the remote    *)
(* e-commerce system (WooCommerce, "woo") and the secondary store          *)
(* (Baserow, "base").  Every async handler of the program is a task whose  *)
(* steps are its awaited requests; the code between two awaits runs        *)
(* without interleaving (single-threaded event loop) and is part of the    *)
(* step that precedes it.                                                  *)
(***************************************************************************)
EXTENDS Integers, Sequences, FiniteSets, TLC

VARIABLES
  woo,        \* remote orders: id -> order record (exists, status, total, meta_data)
  rows,       \* secondary-store orders table: sequence of rows, row id = index
  wooCust,    \* remote customers: id -> customer record
  custRows,   \* secondary-store customers table: sequence of rows
  tasks,      \* running / finished handler invocations, one per task slot
  started,    \* number of handler invocations started so far
  lastUp,     \* history: per foreign order id, the last upsertOrder call that returned
  issued,     \* history: the remote orders for which an order-row insert or patch was sent
  probe,      \* a remote order and what the functions of orderUtils.js return for it
  calls,      \* per HTTP client, the outbound call in progress and its retries
  cache,      \* cache.js: categoriesCache, variationsCache and the reads made
  clock       \* Date.now(), and how often it was advanced

vars == <<woo, rows, wooCust, custRows, tasks, started, lastUp, issued, probe,
          calls, cache, clock>>

(***************************************************************************)
(* Bounds of the model.                                                    *)
(***************************************************************************)
MaxStarts == 2      \* handler invocations per behaviour

Tasks == {"t1", "t2"}

Null == [null |-> TRUE]

(***************************************************************************)
(* Remote orders.  Orders 1..3 exist before the first step (1 was placed   *)
(* through the storefront, 2 and 3 through the POS, 3 was refunded since); *)
(* order 4 is the one POST /orders creates.  total is the decimal string   *)
(* of the REST API.                                                        *)
(***************************************************************************)
OrderIds == 1 .. 4

PosMeta == << [key |-> "order_type", value |-> "Normal Sale"],
              [key |-> "_pos_order", value |-> "yes"] >>

StorefrontMeta == << [key |-> "_pos_order", value |-> "no"] >>

NumberStr(id) ==
  CASE id = 1 -> "101" [] id = 2 -> "102" [] id = 3 -> "103" [] OTHER -> "104"

WooOrder(id, status, total, meta, exists) ==
  [id |-> id, number |-> NumberStr(id), status |-> status, total |-> total,
   meta_data |-> meta, fee_lines |-> <<>>, line_items |-> <<>>,
   date_modified |-> "2026-01-01T00:00:00Z",
   exists |-> exists]

InitialWoo ==
  [id \in OrderIds |->
     CASE id = 1 -> WooOrder(1, "processing", "50.00", StorefrontMeta, TRUE)
       [] id = 2 -> WooOrder(2, "processing", "100.00", PosMeta, TRUE)
       [] id = 3 -> WooOrder(3, "refunded", "100.00", PosMeta, TRUE)
       [] OTHER  -> WooOrder(4, "processing", "0.00", <<>>, FALSE)]

\* Number(x) of the decimal strings the model uses
NumberOf(s) ==
  CASE s = "100.00" -> 100
    [] s = "50.00"  -> 50
    [] OTHER        -> 0

(***************************************************************************)
(* Normalization layer (orderUtils.js).                                    *)
(***************************************************************************)
\* Array.prototype.find: index of the first entry with the key, 0 when none
FindMeta(meta, key) ==
  IF \E i \in 1 .. Len(meta) : meta[i].key = key
  THEN CHOOSE i \in 1 .. Len(meta) :
         /\ meta[i].key = key
         /\ \A j \in 1 .. (i - 1) : meta[j].key # key
  ELSE 0

\* the gate without the first-match rule: some entry is _pos_order = "yes"
HasPosYesEntry(o) ==
  /\ o # Null
  /\ \E i \in 1 .. Len(o.meta_data) :
       o.meta_data[i].key = "_pos_order" /\ o.meta_data[i].value = "yes"

IsPosOrder(wooOrder) ==
  IF wooOrder = Null
  THEN FALSE
  ELSE LET i == FindMeta(wooOrder.meta_data, "_pos_order")
       IN  i # 0 /\ wooOrder.meta_data[i].value = "yes"

MapStatus(wooStatus) ==
  CASE wooStatus \in {"checkout-draft", "pending", "processing", "on-hold"} -> "paid"
    [] wooStatus = "completed" -> "completed"
    [] wooStatus = "cancelled" -> "cancelled"
    [] wooStatus = "refunded"  -> "refund"
    [] wooStatus = "failed"    -> "cancelled"
    [] OTHER -> "paid"

\* Array.prototype.find on fee_lines: index of the first line with the name
FindFee(fees, name) ==
  IF \E i \in 1 .. Len(fees) : fees[i].name = name
  THEN CHOOSE i \in 1 .. Len(fees) :
         /\ fees[i].name = name
         /\ \A j \in 1 .. (i - 1) : fees[j].name # name
  ELSE 0

RECURSIVE SumFees(_, _, _)
\* the totals of the first n fee lines that carry the name
SumFees(fees, name, n) ==
  IF n = 0 THEN 0
  ELSE SumFees(fees, name, n - 1)
       + IF fees[n].name = name THEN NumberOf(fees[n].total) ELSE 0

\* seeded fault: the fee lines of the name add up
GetFee_Sum(wooOrder, name) ==
  SumFees(wooOrder.fee_lines, name, Len(wooOrder.fee_lines))

\* getFee(name): Number(fee?.total || 0) of the first fee line with that name
GetFee(wooOrder, name) ==
  LET i == FindFee(wooOrder.fee_lines, name)
  IN  IF i = 0 THEN 0 ELSE NumberOf(wooOrder.fee_lines[i].total)

\* getMeta(key) || fallback: the value of the first entry with the key
GetMeta(wooOrder, key, fallback) ==
  LET i == FindMeta(wooOrder.meta_data, key)
  IN  IF i = 0 \/ wooOrder.meta_data[i].value = "" THEN fallback
      ELSE wooOrder.meta_data[i].value

\* JSON.stringify(value): the text, named by the value it parses back to
JsonStringify(value) == [json |-> value]

\* normalizeLineItems: product, quantity and prices of each line; the line's
\* meta_data (and with it _hr_fms_components) is not copied
NormalizeLineItems(lineItems) ==
  [i \in 1 .. Len(lineItems) |->
     [product_id |-> lineItems[i].product_id,
      quantity   |-> lineItems[i].quantity]]

\* seeded fault: the POS gate of the default mode is missing
NormalizeOrderForBaserow_NoGate(wooOrder, skipPosCheck) ==
  [woo_order_id |-> wooOrder.id,
   order_number |-> wooOrder.number,
   status       |-> MapStatus(wooOrder.status),
   total        |-> NumberOf(wooOrder.total),
   updated_at   |-> wooOrder.date_modified,
   alteration_charge |-> GetFee(wooOrder, "Alteration Charges"),
   other_charge      |-> GetFee(wooOrder, "Other Charges"),
   measurements |-> GetMeta(wooOrder, "measurements", "-"),
   order_type   |-> GetMeta(wooOrder, "order_type", "Normal Sale"),
   items        |-> JsonStringify(NormalizeLineItems(wooOrder.line_items))]

NormalizeOrderForBaserow(wooOrder, skipPosCheck) ==
  IF ~skipPosCheck /\ ~IsPosOrder(wooOrder)
  THEN Null
  ELSE [woo_order_id |-> wooOrder.id,
        order_number |-> wooOrder.number,
        status       |-> MapStatus(wooOrder.status),
        total        |-> NumberOf(wooOrder.total),
        updated_at   |-> wooOrder.date_modified,
        alteration_charge |-> GetFee(wooOrder, "Alteration Charges"),
        other_charge      |-> GetFee(wooOrder, "Other Charges"),
        measurements |-> GetMeta(wooOrder, "measurements", "-"),
        order_type   |-> GetMeta(wooOrder, "order_type", "Normal Sale"),
        items        |-> JsonStringify(NormalizeLineItems(wooOrder.line_items))]

(***************************************************************************)
(* Secondary-store service, orders (baserow.service.js).                   *)
(***************************************************************************)
ValidStatuses == {"paid", "completed", "cancelled"}

\* Array.prototype.join
RECURSIVE Join(_, _)
Join(parts, sep) ==
  IF Len(parts) = 0 THEN ""
  ELSE IF Len(parts) = 1 THEN parts[1]
  ELSE parts[1] \o sep \o Join(Tail(parts), sep)

\* !order[field]: the number 0 and the string "" are falsy
Falsy(order, field) ==
  IF field \in {"woo_order_id", "total"} THEN order[field] = 0
  ELSE order[field] = ""

\* required.filter(field => !order[field])
MissingFields(order) ==
  SelectSeq(<<"woo_order_id", "order_number", "status", "total">>,
            LAMBDA field : Falsy(order, field))

\* seeded fault: a total of 0 counts as present
ValidateOrderSchema_ZeroTotalPresent(order) ==
  IF order = Null THEN "TypeError"
  ELSE IF order.woo_order_id = 0 \/ order.order_number = "" \/ order.status = ""
       THEN "Missing required fields"
  ELSE IF order.status \notin ValidStatuses THEN "Invalid status"
  ELSE "ok"

\* "ok", or the message of the error validateOrderSchema throws ("TypeError"
\* for a null record)
ValidateOrderSchema(order) ==
  IF order = Null THEN "TypeError"
  ELSE IF Len(MissingFields(order)) > 0
       THEN "Missing required fields: " \o Join(MissingFields(order), ", ")
  ELSE IF order.status \notin ValidStatuses
       THEN "Invalid status: " \o order.status
            \o ". Must be one of: paid, completed, cancelled"
  ELSE "ok"

SanitizeOrderPayload(order) ==
  [woo_order_id |-> order.woo_order_id,
   order_number |-> order.order_number,
   status       |-> order.status,
   total        |-> order.total,
   updated_at   |-> order.updated_at,
   alteration_charge |-> order.alteration_charge,
   other_charge      |-> order.other_charge]

CountRows(rs, fid) == Cardinality({i \in 1 .. Len(rs) : rs[i].woo_order_id = fid})

\* seeded fault: the lookup never finds a row
GetOrderByWooId_Blind(rs, wooOrderId, answered) == 0

\* data.results?.[0] || null as a row id (0 = null); the catch returns null
GetOrderByWooId(rs, wooOrderId, answered) ==
  IF answered /\ \E i \in 1 .. Len(rs) : rs[i].woo_order_id = wooOrderId
  THEN CHOOSE i \in 1 .. Len(rs) :
         /\ rs[i].woo_order_id = wooOrderId
         /\ \A j \in 1 .. (i - 1) : rs[j].woo_order_id # wooOrderId
  ELSE 0

\* seeded fault: the store refuses a second row for a foreign id (unique key)
InsertRow_Unique(rs, row) ==
  IF CountRows(rs, row.woo_order_id) > 0 THEN rs ELSE Append(rs, row)

\* POST /database/rows/table/{id}/
InsertRow(rs, row) == Append(rs, row)

\* PATCH /database/rows/table/{id}/{row}/ : the given fields replace the row's
PatchRow(rs, id, fields) ==
  [rs EXCEPT ![id] = [f \in DOMAIN rs[id] |->
                        IF f \in DOMAIN fields THEN fields[f] ELSE rs[id][f]]]

\* environment: BASEROW_ORDERS_TABLE_ID is set
OrdersTableConfigured == TRUE

NoPrev == [some |-> FALSE, order |-> Null, action |-> "-", ok |-> FALSE,
           clean |-> FALSE, rowsAtLookup |-> 0]

\* one upsertOrder call: st is "none", "lookup" (lookup request sent), "write"
\* (patch or insert sent) or "ret" (returned or thrown)
NoCall ==
  [st |-> "none", order |-> Null, fid |-> 0, valid |-> "-", existing |-> 0,
   reqs |-> 0, ok |-> FALSE, thrown |-> FALSE, action |-> "-", error |-> "-",
   faulted |-> FALSE, overlap |-> FALSE, raced |-> FALSE,
   rowsAtLookup |-> 0, rowsAfter |-> 0, prev |-> NoPrev]

\* seeded fault: a validation error leaves upsertOrder as an exception
UpsertOrderBegin_Rethrow(order) ==
  LET v == ValidateOrderSchema(order) IN
  IF v # "ok"
  THEN [NoCall EXCEPT !.st = "ret", !.order = order, !.valid = v,
                      !.thrown = TRUE, !.error = v]
  ELSE [NoCall EXCEPT !.st = "lookup", !.order = order, !.valid = v,
                      !.fid = order.woo_order_id, !.reqs = 1]

\* seeded fault: the lookup request is sent before the record is validated
UpsertOrderBegin_LookupFirst(order) ==
  LET v == ValidateOrderSchema(order) IN
  IF v # "ok"
  THEN [NoCall EXCEPT !.st = "ret", !.order = order, !.valid = v,
                      !.error = v, !.reqs = 1]
  ELSE [NoCall EXCEPT !.st = "lookup", !.order = order, !.valid = v,
                      !.fid = order.woo_order_id, !.reqs = 1]

\* upsertOrder up to its first await: everything runs inside the try, so a
\* throw of validateOrderSchema ends in the catch, which returns {ok: false}
UpsertOrderBegin(order) ==
  LET v == IF OrdersTableConfigured THEN ValidateOrderSchema(order)
           ELSE "BASEROW_ORDERS_TABLE_ID missing" IN
  IF v # "ok"
  THEN [NoCall EXCEPT !.st = "ret", !.order = order, !.valid = v,
                      !.ok = FALSE, !.thrown = FALSE, !.error = v]
  ELSE [NoCall EXCEPT !.st = "lookup", !.order = order, !.valid = v,
                      !.fid = order.woo_order_id, !.reqs = 1]

\* the lookup answered (or failed): the branch is taken and the write is sent
UpsertOrderAfterLookup(up, rs, answered) ==
  [up EXCEPT !.st = "write",
             !.existing = GetOrderByWooId(rs, up.fid, answered),
             !.reqs = @ + 1,
             !.faulted = @ \/ ~answered,
             !.rowsAtLookup = CountRows(rs, up.fid)]

\* seeded fault: the write is an insert whatever the lookup returned
UpsertOrderStore_AlwaysInsert(up, rs) ==
  InsertRow(rs, SanitizeOrderPayload(up.order))

\* the store after the write request of the call is served
UpsertOrderStore(up, rs) ==
  IF up.existing # 0
  THEN PatchRow(rs, up.existing, SanitizeOrderPayload(up.order))
  ELSE InsertRow(rs, SanitizeOrderPayload(up.order))

\* the write answered (or failed): the result the call returns
UpsertOrderAfterWrite(up, rsAfter, answered) ==
  [up EXCEPT !.st = "ret",
             !.ok = answered,
             !.action = IF ~answered THEN "-"
                        ELSE IF up.existing # 0 THEN "updated" ELSE "created",
             !.error = IF answered THEN "-" ELSE "request failed",
             !.faulted = @ \/ ~answered,
             !.rowsAfter = CountRows(rsAfter, up.fid)]

Summary(up) ==
  [some |-> TRUE, order |-> up.order, action |-> up.action, ok |-> up.ok,
   clean |-> ~up.faulted /\ ~up.overlap, rowsAtLookup |-> up.rowsAtLookup]

(***************************************************************************)
(* Remote customers.  Customers 1 and 2 exist before the first step;       *)
(* customer 3 is the one POST /customers creates.                          *)
(***************************************************************************)
CustIds == 1 .. 3

WooCustomer(id, firstName, billingPhone, exists) ==
  [id |-> id, first_name |-> firstName, phone |-> "",
   billing |-> [phone |-> billingPhone], exists |-> exists]

InitialWooCust ==
  [id \in CustIds |->
     CASE id = 1 -> WooCustomer(1, "Asha", "98", TRUE)
       [] id = 2 -> WooCustomer(2, "Ravi", "77", TRUE)
       [] OTHER  -> WooCustomer(3, "", "", FALSE)]

\* String.prototype.trim on the phone and name inputs the model uses
Trim(str) ==
  CASE str = " 98 " -> "98"
    [] str = "  "   -> ""
    [] OTHER        -> str

(***************************************************************************)
(* Secondary-store service, customers (baserow.service.js).                *)
(***************************************************************************)
\* the fields of sanitizeCustomerPayload that the handlers depend on
SanitizeCustomerPayload(customer) ==
  [first_name |-> customer.first_name,
   phone |-> IF customer.billing.phone # "" THEN customer.billing.phone
             ELSE customer.phone,
   woo_customer_id |-> customer.id]

\* seeded fault: the phone filter never matches
FindCustomerByPhone_Blind(rs, phone, answered) == 0

\* data.results?.[0] || null as a row id (0 = null); the catch returns null
FindCustomerByPhone(rs, phone, answered) ==
  IF answered /\ \E i \in 1 .. Len(rs) : rs[i].phone = phone
  THEN CHOOSE i \in 1 .. Len(rs) :
         /\ rs[i].phone = phone
         /\ \A j \in 1 .. (i - 1) : rs[j].phone # phone
  ELSE 0

GetCustomerByWooId(rs, wooCustomerId, answered) ==
  IF answered /\ \E i \in 1 .. Len(rs) : rs[i].woo_customer_id = wooCustomerId
  THEN CHOOSE i \in 1 .. Len(rs) :
         /\ rs[i].woo_customer_id = wooCustomerId
         /\ \A j \in 1 .. (i - 1) : rs[j].woo_customer_id # wooCustomerId
  ELSE 0

\* environment: BASEROW_CUSTOMERS_TABLE_ID is set
CustomersTableConfigured == TRUE

\* one upsertCustomer call: st is "none", "lookup", "write" or "ret"
NoCustCall ==
  [st |-> "none", sanitized |-> Null, existing |-> 0, reqs |-> 0,
   thrown |-> FALSE, data |-> Null, writeFailed |-> FALSE]

\* seeded fault: the lookup is sent for every record, with or without an id
UpsertCustomerBegin_AlwaysLookup(customer) ==
  [NoCustCall EXCEPT !.st = "lookup",
                     !.sanitized = SanitizeCustomerPayload(customer),
                     !.reqs = 1]

\* upsertCustomer up to its first await
UpsertCustomerBegin(customer) ==
  IF ~CustomersTableConfigured
  THEN [NoCustCall EXCEPT !.st = "ret", !.thrown = TRUE]
  ELSE LET sanitized == SanitizeCustomerPayload(customer) IN
       IF sanitized.woo_customer_id # 0
       THEN [NoCustCall EXCEPT !.st = "lookup", !.sanitized = sanitized, !.reqs = 1]
       ELSE [NoCustCall EXCEPT !.st = "write", !.sanitized = sanitized, !.reqs = 1]

UpsertCustomerAfterLookup(cup, rs, answered) ==
  [cup EXCEPT !.st = "write",
              !.existing = GetCustomerByWooId(rs, cup.sanitized.woo_customer_id,
                                              answered),
              !.reqs = @ + 1]

UpsertCustomerStore(cup, rs) ==
  IF cup.existing # 0
  THEN PatchRow(rs, cup.existing, cup.sanitized)
  ELSE Append(rs, cup.sanitized)

\* seeded fault: the catch of upsertCustomer returns instead of rethrowing
UpsertCustomerAfterWrite_Soft(cup, rsAfter, answered) ==
  [cup EXCEPT !.st = "ret",
              !.thrown = FALSE,
              !.writeFailed = ~answered,
              !.data = IF ~answered THEN Null
                       ELSE IF cup.existing # 0 THEN rsAfter[cup.existing]
                       ELSE rsAfter[Len(rsAfter)]]

\* the write answered and the row is returned, or it failed and the catch rethrows
UpsertCustomerAfterWrite(cup, rsAfter, answered) ==
  [cup EXCEPT !.st = "ret",
              !.thrown = ~answered,
              !.writeFailed = ~answered,
              !.data = IF ~answered THEN Null
                       ELSE IF cup.existing # 0 THEN rsAfter[cup.existing]
                       ELSE rsAfter[Len(rsAfter)]]

(***************************************************************************)
(* Tasks: one record per handler invocation.                               *)
(***************************************************************************)
NoResp == [status |-> 0, message |-> "-", woo_ok |-> FALSE, baserow_ok |-> FALSE,
           success |-> FALSE, order |-> Null, customer |-> Null]

IdleTask ==
  [kind |-> "idle", pc |-> "idle", arg |-> 0,
   list |-> <<>>, idx |-> 0,
   syncedCount |-> 0, skippedCount |-> 0, errorCount |-> 0,
   hasMore |-> FALSE,
   order |-> Null, existing |-> Null, up |-> NoCall, resp |-> NoResp,
   cust |-> Null, cup |-> NoCustCall,
   newStatus |-> "-", patched |-> Null,
   \* history of the invocation
   visited |-> <<>>, results |-> <<>>, remoteOk |-> FALSE, remoteCalls |-> 0, mirrorWrites |-> 0,
   dupAtLookup |-> FALSE, lookupAnswered |-> FALSE]

Free(t) == tasks[t].pc \in {"idle", "done"} /\ started < MaxStarts

Busy(task) == task.up.st \in {"lookup", "write"}

\* the task slots after task t became nt; two upsertOrder calls for one foreign
\* id that are in progress together are marked (overlap), and so are two that
\* both have their lookup behind and their write ahead of them (raced)
Marked(t, nt) ==
  LET cur(u) == IF u = t THEN nt ELSE tasks[u]
      ov(u) == \E w \in Tasks \ {u} :
                 /\ Busy(cur(u)) /\ Busy(cur(w))
                 /\ cur(u).up.fid = cur(w).up.fid
      rc(u) == \E w \in Tasks \ {u} :
                 /\ cur(u).up.st = "write" /\ cur(w).up.st = "write"
                 /\ cur(u).up.fid = cur(w).up.fid
  IN  [u \in Tasks |-> [cur(u) EXCEPT !.up.overlap = @ \/ ov(u),
                                      !.up.raced = @ \/ rc(u)]]

\* Marked for the value of nt (the set binds x to the value, taken once)
Settle(t, nt) == CHOOSE r \in { Marked(t, x) : x \in {nt} } : TRUE

\* `await base.upsertOrder(order)` up to the first request of the call
CallUpsertOrder(task, order, lu) ==
  LET up == UpsertOrderBegin(order) IN
  [task EXCEPT !.order = order,
               !.pc = "upsert",
               !.up = [up EXCEPT !.prev = IF up.st = "lookup" THEN lu[up.fid]
                                          ELSE NoPrev]]

Respond(task, resp) == [task EXCEPT !.pc = "done", !.resp = resp]

(***************************************************************************)
(* Reconciliation: syncRecentOrders.  kind "syncOrders" is the version     *)
(* that classifies first, "syncOrdersLegacy" the version of cron.js.       *)
(***************************************************************************)
SyncKinds == {"syncOrders", "syncOrdersLegacy"}

Existing(w) == {id \in DOMAIN w : w[id].exists}

Min(a, b) == IF a < b THEN a ELSE b

\* ids are handed out in creation order: newest first is highest id first
NewestFirst(S) ==
  CHOOSE p \in [1 .. Cardinality(S) -> S] :
    \A i, j \in 1 .. Cardinality(S) : i < j => p[i] > p[j]

PerPage == 50

\* GET /orders?per_page=50&orderby=date&order=desc
FetchRecentOrders(w) ==
  LET p == NewestFirst(Existing(w)) IN
  [i \in 1 .. Min(PerPage, Len(p)) |-> w[p[i]]]

\* history: the loop takes the record at position idx of the list
Visit(task) == [task EXCEPT !.visited = Append(@, task.idx)]

\* history: what became of the record the loop just handled
RecordResult(task, outcome) == [task EXCEPT !.results = Append(@, outcome)]

Outcome(up) == IF ~up.thrown /\ up.ok THEN "ok" ELSE "failed"

\* seeded fault: a failed record ends the batch
SyncOrdersOnResult_Abort(task) ==
  IF ~task.up.thrown /\ task.up.ok
  THEN [task EXCEPT !.syncedCount = @ + 1, !.idx = @ + 1]
  ELSE [task EXCEPT !.errorCount = @ + 1, !.idx = Len(task.list) + 1]

\* seeded fault: a synced record takes the following record with it
SyncOrdersOnResult_SkipNext(task) ==
  IF task.up.thrown THEN [task EXCEPT !.errorCount = @ + 1, !.idx = @ + 1]
  ELSE IF task.up.ok THEN [task EXCEPT !.syncedCount = @ + 1, !.idx = @ + 2]
  ELSE [task EXCEPT !.errorCount = @ + 1, !.idx = @ + 1]

\* the code after `await base.upsertOrder(normalized)`, and the catch
SyncOrdersOnResult(task) ==
  IF task.up.thrown THEN [task EXCEPT !.errorCount = @ + 1, !.idx = @ + 1]
  ELSE IF task.up.ok THEN [task EXCEPT !.syncedCount = @ + 1, !.idx = @ + 1]
  ELSE [task EXCEPT !.errorCount = @ + 1, !.idx = @ + 1]

RECURSIVE SyncOrdersLoop(_, _)
\* the for loop from record idx on, up to the next request or the end of the run
SyncOrdersFrom(task, lu) ==
  IF task.idx > Len(task.list) THEN [task EXCEPT !.pc = "done"]
  ELSE
    LET wooOrder == task.list[task.idx]
        cur == Visit(task)
    IN
    IF cur.kind = "syncOrders" /\ ~IsPosOrder(wooOrder)
    THEN SyncOrdersLoop(RecordResult([cur EXCEPT !.skippedCount = @ + 1,
                                                 !.idx = @ + 1], "skipped"), lu)
    ELSE
      LET normalized == NormalizeOrderForBaserow(wooOrder, cur.kind = "syncOrders") IN
      IF cur.kind = "syncOrders" /\ normalized = Null
      THEN SyncOrdersLoop(RecordResult([cur EXCEPT !.errorCount = @ + 1,
                                                   !.idx = @ + 1], "failed"), lu)
      ELSE
        LET called == CallUpsertOrder(cur, normalized, lu) IN
        IF called.up.st = "ret"
        THEN SyncOrdersLoop(RecordResult(SyncOrdersOnResult(called),
                                         Outcome(called.up)), lu)
        ELSE called

\* SyncOrdersFrom for the value of task (the set binds x to the value)
SyncOrdersLoop(task, lu) ==
  CHOOSE r \in { SyncOrdersFrom(x, lu) : x \in {task} } : TRUE

StartSyncOrders(t) ==
  /\ Free(t)
  /\ \E k \in SyncKinds :
       tasks' = Settle(t, [IdleTask EXCEPT !.kind = k, !.pc = "fetch"])
  /\ started' = started + 1
  /\ UNCHANGED <<woo, rows, wooCust, custRows, lastUp, issued>>

\* woo.fetchRecentOrders() answers, or fails and the outer catch ends the run
SyncOrdersFetch(t) ==
  /\ tasks[t].kind \in SyncKinds /\ tasks[t].pc = "fetch"
  /\ \/ tasks' = Settle(t, [tasks[t] EXCEPT !.pc = "done"])
     \/ tasks' = Settle(t, SyncOrdersLoop(
                    [tasks[t] EXCEPT !.list = FetchRecentOrders(woo), !.idx = 1],
                    lastUp))
  /\ UNCHANGED <<woo, rows, wooCust, custRows, started, lastUp, issued>>

(***************************************************************************)
(* POST /orders                                                            *)
(***************************************************************************)
\* the snapshot of one fabric component of a cart item
FmsSnapshot(comp, qty) ==
  [fabric_id       |-> comp.fabric_id,
   meters_per_unit |-> comp.meters_per_unit,
   meters_total    |-> comp.meters_per_unit * qty]

\* buildWooOrderPayload: one line item; meta_data only with fabric components
BuildLineItem(item) ==
  [product_id |-> item.product_id,
   quantity   |-> item.qty,
   meta_data  |->
     IF Len(item.fms_components) > 0
     THEN << [key |-> "_hr_fms_components",
              value |-> JsonStringify(
                [i \in 1 .. Len(item.fms_components) |->
                   FmsSnapshot(item.fms_components[i], item.qty)])] >>
     ELSE <<>>]

\* buildWooOrderPayload: meta_data of the order
BuildOrderMeta(cartData) ==
  << [key |-> "order_type",
      value |-> IF cartData.orderType = "" THEN "Normal Sale" ELSE cartData.orderType],
     [key |-> "measurements",
      value |-> IF cartData.measurements = "" THEN "-" ELSE cartData.measurements],
     [key |-> "_pos_order", value |-> "yes"] >>

\* buildWooOrderPayload: status, line items and meta_data
BuildWooOrderPayload(cartData) ==
  [status |-> "processing",
   line_items |-> [i \in 1 .. Len(cartData.items) |-> BuildLineItem(cartData.items[i])],
   meta_data |-> BuildOrderMeta(cartData)]

\* the cart of the POST /orders requests of the order handlers
PosCart ==
  [orderType |-> "Normal Sale", measurements |-> "",
   items |-> << [product_id |-> 7, qty |-> 1, fms_components |-> <<>>] >>]

\* the order the remote system answers a create with: the payload's fields
\* under a new id, with the total the remote system computed
CreatedOrder(id, payload, total) ==
  [WooOrder(id, payload.status, total, payload.meta_data, TRUE)
     EXCEPT !.line_items = payload.line_items]

\* seeded fault: a mirror failure fails the request
CreateOrderRespond_Strict(task) ==
  IF task.up.thrown \/ ~task.up.ok
  THEN Respond(task, [NoResp EXCEPT !.status = 500,
                                    !.message = "Order creation failed"])
  ELSE Respond(task, [NoResp EXCEPT !.status = 201, !.woo_ok = TRUE,
                                    !.baserow_ok = TRUE, !.order = task.order])

\* after `await base.upsertOrder(normalized)`: 201, or the catch's 500
CreateOrderRespond(task) ==
  IF task.up.thrown
  THEN Respond(task, [NoResp EXCEPT !.status = 500,
                                    !.message = "Order creation failed"])
  ELSE Respond(task, [NoResp EXCEPT !.status = 201, !.woo_ok = TRUE,
                                    !.baserow_ok = task.up.ok,
                                    !.order = task.order])

StartCreateOrder(t) ==
  /\ Free(t)
  /\ \E hasItems \in BOOLEAN :
       tasks' = Settle(t,
         IF hasItems
         THEN [IdleTask EXCEPT !.kind = "createOrder", !.pc = "woo_create"]
         ELSE Respond([IdleTask EXCEPT !.kind = "createOrder"],
                      [NoResp EXCEPT !.status = 400,
                                     !.message = "Items are required"]))
  /\ started' = started + 1
  /\ UNCHANGED <<woo, rows, wooCust, custRows, lastUp, issued>>

\* seeded fault: the mirror row is written although the remote create failed
CreateOrderRemote_MirrorAnyway(t) ==
  /\ tasks[t].kind = "createOrder" /\ tasks[t].pc = "woo_create"
  /\ \E id \in OrderIds \ Existing(woo) :
       LET wooOrder == CreatedOrder(id, BuildWooOrderPayload(PosCart), "100.00")
       IN  rows' = InsertRow(rows, SanitizeOrderPayload(
                                     NormalizeOrderForBaserow(wooOrder, TRUE)))
  /\ tasks' = Settle(t, Respond(tasks[t],
                 [NoResp EXCEPT !.status = 500,
                                !.message = "Order creation failed"]))
  /\ UNCHANGED <<woo, wooCust, custRows, started, lastUp, issued>>

\* woo.createOrder(wooPayload) answers with the new order, or throws
CreateOrderRemote(t) ==
  /\ tasks[t].kind = "createOrder" /\ tasks[t].pc = "woo_create"
  /\ \/ /\ tasks' = Settle(t, Respond(tasks[t],
                      [NoResp EXCEPT !.status = 500,
                                     !.message = "Order creation failed"]))
        /\ woo' = woo
     \/ \E id \in OrderIds \ Existing(woo), total \in {"0.00", "100.00"} :
          LET payload == BuildWooOrderPayload(PosCart)
              wooOrder == CreatedOrder(id, payload, total)
              called == CallUpsertOrder([tasks[t] EXCEPT !.remoteOk = TRUE],
                                        NormalizeOrderForBaserow(wooOrder, FALSE),
                                        lastUp)
          IN  /\ woo' = [woo EXCEPT ![id] = wooOrder]
              /\ tasks' = Settle(t, IF called.up.st = "ret"
                                    THEN CreateOrderRespond(called) ELSE called)
  /\ UNCHANGED <<rows, wooCust, custRows, started, lastUp, issued>>

(***************************************************************************)
(* GET /orders/:id, with its fetch-and-mirror fallback                     *)
(***************************************************************************)
\* after `await base.upsertOrder(order)`: order.items of a null order throws
GetOrderRespond(task) ==
  IF task.up.thrown \/ task.order = Null
  THEN Respond(task, [NoResp EXCEPT !.status = 500,
                                    !.message = "Failed to fetch order"])
  ELSE Respond(task, [NoResp EXCEPT !.status = 200, !.order = task.order])

StartGetOrder(t) ==
  /\ Free(t)
  /\ \E id \in OrderIds :
       tasks' = Settle(t, [IdleTask EXCEPT !.kind = "getOrder",
                                           !.pc = "get_lookup", !.arg = id])
  /\ started' = started + 1
  /\ UNCHANGED <<woo, rows, wooCust, custRows, lastUp, issued>>

\* base.getOrderByWooId(wooOrderId) answers or fails
GetOrderLookup(t) ==
  /\ tasks[t].kind = "getOrder" /\ tasks[t].pc = "get_lookup"
  /\ \E answered \in BOOLEAN :
       LET found == GetOrderByWooId(rows, tasks[t].arg, answered) IN
       tasks' = Settle(t,
         IF found # 0
         THEN Respond(tasks[t], [NoResp EXCEPT !.status = 200,
                                               !.order = rows[found]])
         ELSE [tasks[t] EXCEPT !.pc = "get_fetch"])
  /\ UNCHANGED <<woo, rows, wooCust, custRows, started, lastUp, issued>>

\* woo.fetchOrder(wooOrderId) answers with the order, or throws
GetOrderFetch(t) ==
  /\ tasks[t].kind = "getOrder" /\ tasks[t].pc = "get_fetch"
  /\ \E answered \in BOOLEAN :
       tasks' = Settle(t,
         IF ~answered \/ ~woo[tasks[t].arg].exists
         THEN Respond(tasks[t], [NoResp EXCEPT !.status = 500,
                                               !.message = "Failed to fetch order"])
         ELSE LET called == CallUpsertOrder(tasks[t],
                              NormalizeOrderForBaserow(woo[tasks[t].arg], FALSE),
                              lastUp)
              IN  IF called.up.st = "ret" THEN GetOrderRespond(called) ELSE called)
  /\ UNCHANGED <<woo, rows, wooCust, custRows, started, lastUp, issued>>

(***************************************************************************)
(* PATCH /orders/:id/complete and patchOrderStatus                         *)
(***************************************************************************)
\* STATUS_MAP[status] || existing.status
\* the statuses a caller may hand to patchOrderStatus
PatchInputs == {"completed", "cancelled", "processing", "pending", "on-hold",
                "refunded"}

\* the foreign ids of the direct calls: two that can have rows, one that has none
PatchTargets == {1, 2, 3}

\* seeded fault: the status is written as it was given, unmapped
PatchedStatus_Raw(status, existingStatus) == status

PatchedStatus(status, existingStatus) ==
  CASE status = "completed" -> "completed"
    [] status = "cancelled" -> "cancelled"
    [] status \in {"processing", "pending", "on-hold"} -> "paid"
    [] OTHER -> existingStatus

StartCompleteOrder(t) ==
  /\ Free(t)
  /\ \E id \in OrderIds :
       tasks' = Settle(t, [IdleTask EXCEPT !.kind = "completeOrder",
                                           !.pc = "complete_lookup", !.arg = id])
  /\ started' = started + 1
  /\ UNCHANGED <<woo, rows, wooCust, custRows, lastUp, issued>>

\* seeded fault: a row that is already completed or cancelled is updated again
CompleteLookup_NoFinalCheck(t) ==
  /\ tasks[t].kind = "completeOrder" /\ tasks[t].pc = "complete_lookup"
  /\ \E answered \in BOOLEAN :
       LET found == GetOrderByWooId(rows, tasks[t].arg, answered) IN
       tasks' = Settle(t,
         IF found = 0
         THEN Respond(tasks[t], [NoResp EXCEPT !.status = 404,
                                               !.message = "Order not found"])
         ELSE [tasks[t] EXCEPT !.pc = "complete_remote"])
  /\ UNCHANGED <<woo, rows, wooCust, custRows, started, lastUp, issued>>

\* base.getOrderByWooId: 404, "already finalized", or on to the remote update
CompleteLookup(t) ==
  /\ tasks[t].kind = "completeOrder" /\ tasks[t].pc = "complete_lookup"
  /\ \E answered \in BOOLEAN :
       LET found == GetOrderByWooId(rows, tasks[t].arg, answered) IN
       tasks' = Settle(t,
         IF found = 0
         THEN Respond(tasks[t], [NoResp EXCEPT !.status = 404,
                                               !.message = "Order not found"])
         ELSE IF rows[found].status \in {"completed", "cancelled"}
         THEN Respond(tasks[t], [NoResp EXCEPT !.status = 200,
                                               !.message = "Order already finalized",
                                               !.order = rows[found]])
         ELSE [tasks[t] EXCEPT !.pc = "complete_remote"])
  /\ UNCHANGED <<woo, rows, wooCust, custRows, started, lastUp, issued>>

\* patchOrderStatus rethrows and the route's catch answers 500
CompleteOnPatchFailure(task) ==
  Respond(task, [NoResp EXCEPT !.status = 500,
                               !.message = "Failed to mark order as completed"])

\* woo.updateOrderStatus(id, {status: "completed"}) answers or throws
CompleteRemote(t) ==
  /\ tasks[t].kind = "completeOrder" /\ tasks[t].pc = "complete_remote"
  /\ \/ /\ tasks' = Settle(t, Respond(tasks[t],
                      [NoResp EXCEPT !.status = 500,
                                     !.message = "Failed to mark order as completed"]))
        /\ woo' = woo
     \/ /\ woo[tasks[t].arg].exists
        /\ woo' = [woo EXCEPT ![tasks[t].arg].status = "completed"]
        /\ tasks' = Settle(t, [tasks[t] EXCEPT !.pc = "patch_lookup",
                                               !.newStatus = "completed",
                                               !.remoteOk = TRUE])
  /\ UNCHANGED <<rows, wooCust, custRows, started, lastUp, issued>>

\* new Date().toISOString() at the time of the patch
PatchTime == "2026-01-02T00:00:00Z"

\* the payload patchOrderStatus sends: status and updated_at, nothing else
PatchStatusPayload(status, existing) ==
  [status     |-> PatchedStatus(status, existing.status),
   updated_at |-> PatchTime]

\* patchOrderStatus returns: to the route of POST /orders/:id/complete, which
\* answers 200 with the row (or without one), or to a direct caller
PatchReturn(task, row) ==
  IF task.kind = "completeOrder"
  THEN Respond(task, [NoResp EXCEPT !.status = 200,
                                    !.message = "Order marked as completed",
                                    !.order = row])
  ELSE [task EXCEPT !.pc = "done", !.patched = row]

\* patchOrderStatus rethrows: the route's catch answers 500
PatchThrow(task) ==
  IF task.kind = "completeOrder"
  THEN CompleteOnPatchFailure([task EXCEPT !.up.thrown = TRUE])
  ELSE [task EXCEPT !.pc = "done", !.up.thrown = TRUE]

\* a direct call patchOrderStatus(wooOrderId, status) of the exported function
StartPatchOrderStatus(t) ==
  /\ Free(t)
  /\ \E id \in PatchTargets, st \in PatchInputs :
       tasks' = Settle(t, [IdleTask EXCEPT !.kind = "patchOrderStatus",
                                           !.pc = "patch_lookup", !.arg = id,
                                           !.newStatus = st])
  /\ started' = started + 1
  /\ UNCHANGED <<woo, rows, wooCust, custRows, lastUp, issued>>

\* patchOrderStatus: its lookup; no row (or a failed lookup) returns null
PatchStatusLookup(t) ==
  /\ tasks[t].kind \in {"completeOrder", "patchOrderStatus"}
  /\ tasks[t].pc = "patch_lookup"
  /\ \E answered \in BOOLEAN :
       LET found == GetOrderByWooId(rows, tasks[t].arg, answered) IN
       tasks' = Settle(t,
         IF found = 0
         THEN PatchReturn(tasks[t], Null)
         ELSE [tasks[t] EXCEPT !.pc = "patch_write",
                               !.existing = [id |-> found, row |-> rows[found]]])
  /\ UNCHANGED <<woo, rows, wooCust, custRows, started, lastUp, issued>>

\* patchOrderStatus: its patch of status and updated_at answers or throws
PatchStatusWrite(t) ==
  /\ tasks[t].kind \in {"completeOrder", "patchOrderStatus"}
  /\ tasks[t].pc = "patch_write"
  /\ \/ /\ rows' = PatchRow(rows, tasks[t].existing.id,
                     PatchStatusPayload(tasks[t].newStatus, tasks[t].existing.row))
        /\ tasks' = Settle(t, PatchReturn(tasks[t], rows'[tasks[t].existing.id]))
     \/ /\ rows' = rows
        /\ tasks' = Settle(t, PatchThrow(tasks[t]))
  /\ UNCHANGED <<woo, wooCust, custRows, started, lastUp, issued>>

(***************************************************************************)
(* migrate-orders.js: migrateOrders                                        *)
(***************************************************************************)
MigrateLimit == 50

\* base.getOrders({page, limit}): the page's rows and whether a next page exists
GetOrdersPage(rs, page) ==
  LET from == (page - 1) * MigrateLimit + 1
      to == Min(page * MigrateLimit, Len(rs))
  IN  [results |-> IF from > to THEN <<>> ELSE SubSeq(rs, from, to),
       next |-> Len(rs) > page * MigrateLimit]

\* after `await base.upsertOrder(normalized)`, and the inner catch
MigrateOnResult(task) ==
  IF ~task.up.thrown /\ task.up.ok
  THEN [task EXCEPT !.syncedCount = @ + 1, !.idx = @ + 1]
  ELSE [task EXCEPT !.errorCount = @ + 1, !.idx = @ + 1]

RECURSIVE MigrateLoop(_)
\* the for loop over the page, up to the next request
MigrateLoop(task) ==
  IF task.idx > Len(task.list)
  THEN IF task.hasMore
       THEN [task EXCEPT !.pc = "mig_page", !.arg = @ + 1]
       ELSE [task EXCEPT !.pc = "done"]
  ELSE IF task.list[task.idx].woo_order_id = 0
  THEN MigrateLoop([task EXCEPT !.errorCount = @ + 1, !.idx = @ + 1])
  ELSE [task EXCEPT !.pc = "mig_fetch"]

StartMigrate(t) ==
  /\ Free(t)
  /\ tasks' = Settle(t, [IdleTask EXCEPT !.kind = "migrate", !.pc = "mig_page",
                                         !.arg = 1])
  /\ started' = started + 1
  /\ UNCHANGED <<woo, rows, wooCust, custRows, lastUp, issued>>

\* base.getOrders answers with a page, or throws and the while loop breaks
MigratePage(t) ==
  /\ tasks[t].kind = "migrate" /\ tasks[t].pc = "mig_page"
  /\ \E answered \in BOOLEAN :
       LET page == GetOrdersPage(rows, tasks[t].arg) IN
       tasks' = Settle(t,
         IF ~answered \/ Len(page.results) = 0
         THEN [tasks[t] EXCEPT !.pc = "done"]
         ELSE MigrateLoop([tasks[t] EXCEPT !.list = page.results, !.idx = 1,
                                           !.hasMore = page.next]))
  /\ UNCHANGED <<woo, rows, wooCust, custRows, started, lastUp, issued>>

\* woo.fetchOrder(wooOrderId) answers, or throws into the inner catch; a null
\* normalized record throws at normalized.created_at
MigrateFetch(t) ==
  /\ tasks[t].kind = "migrate" /\ tasks[t].pc = "mig_fetch"
  /\ \E answered \in BOOLEAN :
       LET id == tasks[t].list[tasks[t].idx].woo_order_id
           normalized == NormalizeOrderForBaserow(woo[id], FALSE)
       IN  tasks' = Settle(t,
             IF ~answered \/ ~woo[id].exists \/ normalized = Null
             THEN MigrateLoop([tasks[t] EXCEPT !.errorCount = @ + 1, !.idx = @ + 1])
             ELSE LET called == CallUpsertOrder(tasks[t], normalized, lastUp) IN
                  IF called.up.st = "ret"
                  THEN MigrateLoop(MigrateOnResult(called))
                  ELSE called)
  /\ UNCHANGED <<woo, rows, wooCust, custRows, started, lastUp, issued>>

(***************************************************************************)
(* upsertOrder: its two requests, for whichever handler made the call      *)
(***************************************************************************)
\* the handler's code after `await base.upsertOrder(...)`
Resume(task, lu) ==
  CASE task.kind \in SyncKinds ->
         SyncOrdersLoop(RecordResult(SyncOrdersOnResult(task), Outcome(task.up)), lu)
    [] task.kind = "createOrder" -> CreateOrderRespond(task)
    [] task.kind = "getOrder" -> GetOrderRespond(task)
    [] task.kind = "migrate" -> MigrateLoop(MigrateOnResult(task))
    [] OTHER -> task

UpsertOrderLookup(t) ==
  /\ tasks[t].pc = "upsert" /\ tasks[t].up.st = "lookup"
  /\ \E answered \in BOOLEAN :
       tasks' = Settle(t, [tasks[t] EXCEPT
                             !.up = UpsertOrderAfterLookup(@, rows, answered)])
  /\ issued' = issued \cup {tasks[t].up.fid}
  /\ UNCHANGED <<woo, rows, wooCust, custRows, started, lastUp>>

UpsertOrderWrite(t) ==
  /\ tasks[t].pc = "upsert" /\ tasks[t].up.st = "write"
  /\ \E answered \in BOOLEAN :
       LET up == UpsertOrderAfterWrite(tasks[t].up,
                   IF answered THEN UpsertOrderStore(tasks[t].up, rows) ELSE rows,
                   answered)
       IN  /\ rows' = IF answered THEN UpsertOrderStore(tasks[t].up, rows) ELSE rows
           /\ lastUp' = [lastUp EXCEPT ![up.fid] = Summary(up)]
           /\ tasks' = Settle(t, Resume([tasks[t] EXCEPT !.up = up], lastUp'))
  /\ UNCHANGED <<woo, wooCust, custRows, started, issued>>

(***************************************************************************)
(* Customers: POST /customers, PATCH /customers/:id, syncRecentCustomers   *)
(***************************************************************************)
\* `await base.upsertCustomer(customer)` up to the first request of the call
CallUpsertCustomer(task, customer) ==
  [task EXCEPT !.pc = "cupsert", !.cup = UpsertCustomerBegin(customer)]

\* 201 with the mirrored row, or with the fallback record of the inner catch
CreateCustomerRespond(task) ==
  IF task.cup.thrown
  THEN Respond(task, [NoResp EXCEPT !.status = 201,
         !.customer = [first_name |-> task.cust.first_name,
                       phone |-> task.cust.billing.phone,
                       woo_customer_id |-> task.cust.id]])
  ELSE Respond(task, [NoResp EXCEPT !.status = 201, !.customer = task.cup.data])

\* the sync try/catch of PATCH /customers/:id swallows every mirror failure
UpdateCustomerRespond(task) ==
  Respond(task, [NoResp EXCEPT !.status = 200, !.success = TRUE,
                               !.message = "Customer updated successfully"])

SyncCustomersOnResult(task) ==
  IF task.cup.thrown
  THEN [task EXCEPT !.errorCount = @ + 1, !.idx = @ + 1]
  ELSE [task EXCEPT !.syncedCount = @ + 1, !.idx = @ + 1]

CustOutcome(cup) == IF cup.thrown THEN "failed" ELSE "ok"

RECURSIVE SyncCustomersLoop(_)
SyncCustomersFrom(task) ==
  IF task.idx > Len(task.list) THEN [task EXCEPT !.pc = "done"]
  ELSE LET called == CallUpsertCustomer(Visit(task), task.list[task.idx]) IN
       IF called.cup.st = "ret"
       THEN SyncCustomersLoop(RecordResult(SyncCustomersOnResult(called),
                                           CustOutcome(called.cup)))
       ELSE called

\* SyncCustomersFrom for the value of task (the set binds x to the value)
SyncCustomersLoop(task) ==
  CHOOSE r \in { SyncCustomersFrom(x) : x \in {task} } : TRUE

\* the handler's code after `await base.upsertCustomer(...)`
ResumeCust(task) ==
  CASE task.kind = "createCustomer" -> CreateCustomerRespond(task)
    [] task.kind = "updateCustomer" -> UpdateCustomerRespond(task)
    [] task.kind = "syncCustomers" ->
         SyncCustomersLoop(RecordResult(SyncCustomersOnResult(task),
                                        CustOutcome(task.cup)))
    [] task.kind = "upsertCustomer" -> [task EXCEPT !.pc = "done"]
    [] OTHER -> task

StartCreateCustomer(t) ==
  /\ Free(t)
  /\ \E firstName \in {"  ", "Mina"}, phone \in {"  ", " 98 ", "55"} :
       LET task == [IdleTask EXCEPT !.kind = "createCustomer",
                      !.cust = [first_name |-> firstName, phone |-> phone]]
       IN  tasks' = Settle(t,
             IF Trim(firstName) = ""
             THEN Respond(task, [NoResp EXCEPT !.status = 400,
                                               !.message = "First name is required"])
             ELSE IF Trim(phone) = ""
             THEN Respond(task, [NoResp EXCEPT !.status = 400,
                                               !.message = "Phone is required"])
             ELSE [task EXCEPT !.pc = "phone_lookup"])
  /\ started' = started + 1
  /\ UNCHANGED <<woo, rows, wooCust, custRows, lastUp, issued>>

\* base.findCustomerByPhone(phone.trim()): 409 with the row it found
CreateCustomerPhoneLookup(t) ==
  /\ tasks[t].kind = "createCustomer" /\ tasks[t].pc = "phone_lookup"
  /\ \E answered \in BOOLEAN :
       LET phone == Trim(tasks[t].cust.phone)
           found == FindCustomerByPhone(custRows, phone, answered)
           task == [tasks[t] EXCEPT
                      !.lookupAnswered = answered,
                      !.dupAtLookup = \E i \in 1 .. Len(custRows) :
                                         custRows[i].phone = phone]
       IN  tasks' = Settle(t,
             IF found # 0
             THEN Respond(task, [NoResp EXCEPT !.status = 409,
                    !.message = "Customer with this phone number already exists",
                    !.customer = custRows[found]])
             ELSE [task EXCEPT !.pc = "cust_create", !.remoteCalls = @ + 1])
  /\ UNCHANGED <<woo, rows, wooCust, custRows, started, lastUp, issued>>

\* woo.createCustomer(wooPayload) answers with the new customer, or throws
CreateCustomerRemote(t) ==
  /\ tasks[t].kind = "createCustomer" /\ tasks[t].pc = "cust_create"
  /\ \/ /\ \E status \in {400, 500} :
             tasks' = Settle(t, Respond(tasks[t],
                        [NoResp EXCEPT !.status = status,
                                       !.message = "Failed to create customer"]))
        /\ wooCust' = wooCust
     \/ \E id \in CustIds \ Existing(wooCust) :
          LET wooCustomer == WooCustomer(id, Trim(tasks[t].cust.first_name),
                                         Trim(tasks[t].cust.phone), TRUE)
              called == CallUpsertCustomer(
                          [tasks[t] EXCEPT !.remoteOk = TRUE, !.cust = wooCustomer],
                          wooCustomer)
          IN  /\ wooCust' = [wooCust EXCEPT ![id] = wooCustomer]
              /\ tasks' = Settle(t, IF called.cup.st = "ret"
                                    THEN ResumeCust(called) ELSE called)
  /\ UNCHANGED <<woo, rows, custRows, started, lastUp, issued>>

StartUpdateCustomer(t) ==
  /\ Free(t)
  /\ \E id \in {0} \cup CustIds, emailValid \in BOOLEAN, phone \in {" 98 ", "55"} :
       LET task == [IdleTask EXCEPT !.kind = "updateCustomer", !.arg = id,
                      !.cust = [first_name |-> "Mina", phone |-> phone]]
       IN  tasks' = Settle(t,
             IF id = 0
             THEN Respond(task, [NoResp EXCEPT !.status = 400,
                    !.message = "Invalid WooCommerce customer ID"])
             ELSE IF ~emailValid
             THEN Respond(task, [NoResp EXCEPT !.status = 400,
                                               !.message = "Invalid email format"])
             ELSE [task EXCEPT !.pc = "cust_update", !.remoteCalls = @ + 1])
  /\ started' = started + 1
  /\ UNCHANGED <<woo, rows, wooCust, custRows, lastUp, issued>>

\* woo.updateCustomer(id, wooPayload) answers, or throws into the outer catch
UpdateCustomerRemote(t) ==
  /\ tasks[t].kind = "updateCustomer" /\ tasks[t].pc = "cust_update"
  /\ \/ /\ \E status \in {404, 500} :
             tasks' = Settle(t, Respond(tasks[t],
                        [NoResp EXCEPT !.status = status,
                                       !.message = "Failed to update customer"]))
        /\ wooCust' = wooCust
     \/ /\ wooCust[tasks[t].arg].exists
        /\ wooCust' = [wooCust EXCEPT
             ![tasks[t].arg].first_name = Trim(tasks[t].cust.first_name),
             ![tasks[t].arg].billing.phone = Trim(tasks[t].cust.phone)]
        /\ tasks' = Settle(t, [tasks[t] EXCEPT !.pc = "cust_refetch",
                                               !.remoteOk = TRUE])
  /\ UNCHANGED <<woo, rows, custRows, started, lastUp, issued>>

\* woo.fetchCustomer(id) inside the sync try: a throw is logged and swallowed
UpdateCustomerRefetch(t) ==
  /\ tasks[t].kind = "updateCustomer" /\ tasks[t].pc = "cust_refetch"
  /\ \E answered \in BOOLEAN :
       tasks' = Settle(t,
         IF ~answered
         THEN UpdateCustomerRespond(tasks[t])
         ELSE LET called == CallUpsertCustomer(tasks[t], wooCust[tasks[t].arg]) IN
              IF called.cup.st = "ret" THEN ResumeCust(called) ELSE called)
  /\ UNCHANGED <<woo, rows, wooCust, custRows, started, lastUp, issued>>

StartSyncCustomers(t) ==
  /\ Free(t)
  /\ tasks' = Settle(t, [IdleTask EXCEPT !.kind = "syncCustomers", !.pc = "fetch"])
  /\ started' = started + 1
  /\ UNCHANGED <<woo, rows, wooCust, custRows, lastUp, issued>>

CustomersPerPage == 50

\* GET /customers?per_page=50&orderby=registered_date&order=desc
FetchCustomers(w) ==
  LET p == NewestFirst(Existing(w)) IN
  [i \in 1 .. Min(CustomersPerPage, Len(p)) |-> w[p[i]]]

\* woo.fetchCustomers answers, or fails and the outer catch ends the run
SyncCustomersFetch(t) ==
  /\ tasks[t].kind = "syncCustomers" /\ tasks[t].pc = "fetch"
  /\ \/ tasks' = Settle(t, [tasks[t] EXCEPT !.pc = "done"])
     \/ tasks' = Settle(t, SyncCustomersLoop(
                    [tasks[t] EXCEPT !.list = FetchCustomers(wooCust), !.idx = 1]))
  /\ UNCHANGED <<woo, rows, wooCust, custRows, started, lastUp, issued>>

UpsertCustomerLookup(t) ==
  /\ tasks[t].pc = "cupsert" /\ tasks[t].cup.st = "lookup"
  /\ \E answered \in BOOLEAN :
       tasks' = Settle(t, [tasks[t] EXCEPT
                             !.cup = UpsertCustomerAfterLookup(@, custRows, answered)])
  /\ UNCHANGED <<woo, rows, wooCust, custRows, started, lastUp, issued>>

UpsertCustomerWrite(t) ==
  /\ tasks[t].pc = "cupsert" /\ tasks[t].cup.st = "write"
  /\ \E answered \in BOOLEAN :
       LET after == IF answered THEN UpsertCustomerStore(tasks[t].cup, custRows)
                    ELSE custRows
       IN  /\ custRows' = after
           /\ tasks' = Settle(t, ResumeCust(
                [tasks[t] EXCEPT !.cup = UpsertCustomerAfterWrite(@, after, answered),
                                 !.mirrorWrites = @ + 1]))
  /\ UNCHANGED <<woo, rows, wooCust, started, lastUp, issued>>

(***************************************************************************)
(* orderUtils.js as functions of one remote order: the order is drawn from *)
(* InputOrders and each step applies one function to it.                   *)
(***************************************************************************)
MaxMeta == 2        \* entries of a meta_data list

MetaEntries ==
  { [key |-> "_pos_order", value |-> "yes"],
    [key |-> "_pos_order", value |-> "no"],
    [key |-> "order_type", value |-> "Normal Sale"] }

MetaLists == UNION { [1 .. n -> MetaEntries] : n \in 0 .. MaxMeta }

\* the order statuses of the remote system, and one it does not know
WooStatuses ==
  { "checkout-draft", "pending", "processing", "on-hold", "completed",
    "cancelled", "refunded", "failed", "trash" }

MaxFees == 2

FeeLines ==
  { [name |-> "Alteration Charges", total |-> "50.00"],
    [name |-> "Alteration Charges", total |-> "100.00"],
    [name |-> "Other Charges", total |-> "50.00"],
    [name |-> "Gift Wrap", total |-> "50.00"] }

FeeLists == UNION { [1 .. n -> FeeLines] : n \in 0 .. MaxFees }

\* orders of every status and classification, and POS orders with fee lines
InputOrders ==
  { WooOrder(1, st, "100.00", m, TRUE) : st \in WooStatuses, m \in MetaLists }
  \cup
  { [WooOrder(2, "processing", "100.00", PosMeta, TRUE) EXCEPT !.fee_lines = f] :
      f \in FeeLists }

NoProbe ==
  [order |-> Null, calls |-> {}, isPos |-> FALSE, hasPosFlag |-> FALSE,
   normalized |-> Null, normalizedSkip |-> Null,
   cart |-> Null, payload |-> Null, roundTrip |-> Null,
   customer |-> Null, sanitized |-> Null]

\* isPosOrder(wooOrder)
ProbeIsPosOrder ==
  /\ "isPosOrder" \notin probe.calls
  /\ probe' = [probe EXCEPT !.calls = @ \cup {"isPosOrder"},
                            !.isPos = IsPosOrder(probe.order)]
  /\ UNCHANGED <<woo, rows, wooCust, custRows, tasks, started, lastUp, issued,
                 calls, cache, clock>>

\* the hasPosFlag test of cleanupNonPosOrders on the fetched order
ProbeHasPosFlag ==
  /\ "hasPosFlag" \notin probe.calls
  /\ probe' = [probe EXCEPT !.calls = @ \cup {"hasPosFlag"},
                            !.hasPosFlag = HasPosYesEntry(probe.order)]
  /\ UNCHANGED <<woo, rows, wooCust, custRows, tasks, started, lastUp, issued,
                 calls, cache, clock>>

\* normalizeOrderForBaserow(wooOrder), the default mode
ProbeNormalize ==
  /\ "normalize" \notin probe.calls
  /\ probe' = [probe EXCEPT !.calls = @ \cup {"normalize"},
                 !.normalized = NormalizeOrderForBaserow(probe.order, FALSE)]
  /\ UNCHANGED <<woo, rows, wooCust, custRows, tasks, started, lastUp, issued,
                 calls, cache, clock>>

\* normalizeOrderForBaserow(wooOrder, true), as the sync run calls it
ProbeNormalizeSkip ==
  /\ "normalizeSkip" \notin probe.calls
  /\ probe' = [probe EXCEPT !.calls = @ \cup {"normalizeSkip"},
                 !.normalizedSkip = NormalizeOrderForBaserow(probe.order, TRUE)]
  /\ UNCHANGED <<woo, rows, wooCust, custRows, tasks, started, lastUp, issued,
                 calls, cache, clock>>

(***************************************************************************)
(* The two HTTP clients and their retry policy (axios-retry).  An attempt  *)
(* ends with a response (2xx, 4xx, 5xx) or without one: ECONNABORTED is    *)
(* the code of an aborted or timed-out request, ECONNRESET stands for the  *)
(* other network errors.                                                   *)
(***************************************************************************)
Clients == {"woo", "base"}

Methods == {"get", "post", "patch"}

AttemptOutcomes == {"2xx", "4xx", "5xx", "ECONNABORTED", "ECONNRESET"}

WooRetries == 2

BaseRetries == 3

Retries(c) == IF c = "woo" THEN WooRetries ELSE BaseRetries

\* axiosRetry.isNetworkError: no response, a code, and not ECONNABORTED
IsNetworkError(o) == o = "ECONNRESET"

\* axiosRetry.isRetryableError: not ECONNABORTED, and no response or a 5xx
IsRetryableError(o) == o # "ECONNABORTED" /\ o \in {"ECONNRESET", "5xx"}

\* axiosRetry.isNetworkOrIdempotentRequestError
IsNetworkOrIdempotentRequestError(o, method) ==
  \/ IsNetworkError(o)
  \/ IsRetryableError(o) /\ method \in {"get", "head", "options", "put", "delete"}

\* seeded fault: the order client retries after every error
WooRetryCondition_AnyError(o) == o # "2xx"

\* error.response?.status >= 500 || error.code === "ECONNABORTED"
WooRetryCondition(o) == o = "5xx" \/ o = "ECONNABORTED"

\* isNetworkOrIdempotentRequestError(error) || error.response?.status >= 500
BaseRetryCondition(o, method) ==
  IsNetworkOrIdempotentRequestError(o, method) \/ o = "5xx"

RetryCondition(c, o, method) ==
  IF c = "woo" THEN WooRetryCondition(o) ELSE BaseRetryCondition(o, method)

\* st: "none", "sent" (an attempt is in flight), "delay" (a retry is scheduled)
\* or "returned"; last is how the last attempt ended
NoHttp == [st |-> "none", method |-> "-", retryCount |-> 0, last |-> "-",
           result |-> "-"]

\* a call of the client: its first attempt is sent
SendRequest(c) ==
  /\ calls[c].st \in {"none", "returned"}
  /\ \E m \in Methods :
       calls' = [calls EXCEPT ![c] = [NoHttp EXCEPT !.st = "sent", !.method = m]]
  /\ UNCHANGED <<woo, rows, wooCust, custRows, tasks, started, lastUp, issued,
                 probe, cache, clock>>

\* the attempt ends: the call resolves, or the interceptor schedules a retry
\* (retryCount < retries and the retry condition holds), or the call rejects
AttemptEnds(c) ==
  /\ calls[c].st = "sent"
  /\ \E o \in AttemptOutcomes :
       calls' = [calls EXCEPT ![c] =
         IF o = "2xx"
         THEN [@ EXCEPT !.st = "returned", !.last = o, !.result = "response"]
         ELSE IF @.retryCount < Retries(c) /\ RetryCondition(c, o, @.method)
         THEN [@ EXCEPT !.st = "delay", !.last = o, !.retryCount = @ + 1]
         ELSE [@ EXCEPT !.st = "returned", !.last = o, !.result = "error"]]
  /\ UNCHANGED <<woo, rows, wooCust, custRows, tasks, started, lastUp, issued,
                 probe, cache, clock>>

\* retryDelay: axiosRetry.exponentialDelay has passed, the request is sent again
RetryDelayEnds(c) ==
  /\ calls[c].st = "delay"
  /\ calls' = [calls EXCEPT ![c].st = "sent"]
  /\ UNCHANGED <<woo, rows, wooCust, custRows, tasks, started, lastUp, issued,
                 probe, cache, clock>>

(***************************************************************************)
(* cache.js                                                                *)
(***************************************************************************)
\* Date.now() when the module is loaded
StartTime == 100000000

MaxTicks == 2       \* how often the clock is advanced in one behaviour

InitialClock == [now |-> StartTime, ticks |-> 0]

VARIATIONS_TTL == 5 * 60 * 1000

\* const TTL of getCachedCategories
TTL == 6 * 60 * 60 * 1000

\* the clock moves by a millisecond, by the variations TTL, or to a millisecond
\* before the categories TTL
ClockSteps == {1, VARIATIONS_TTL, TTL - 1}

ProductIds == {7, 12}

\* String(productId), the key of the Map
StringOf(productId) == IF productId = 7 THEN "7" ELSE "12"

Keys == { StringOf(p) : p \in ProductIds }

\* the arrays a caller stores, named by their content
VariationLists == {[array |-> "variations-a"], [array |-> "variations-b"]}

CategoryLists == {[array |-> "categories-a"]}

\* history: the last set of a key (or of the categories) and whether a clear
\* followed it
NoSet == [some |-> FALSE, value |-> Null, at |-> 0, cleared |-> FALSE]

\* history: the read or sweep that was the last operation, if it was one (flip
\* tells two equal operations in a row apart)
NoOp == [name |-> "-", key |-> "-", result |-> Null, flip |-> FALSE]

\* variationsCache maps a key to its entry, Null when the Map has none
InitialCache ==
  [categoriesCache |-> [categories |-> Null, timestamp |-> 0],
   variationsCache |-> [k \in Keys |-> Null],
   latest |-> [k \in Keys |-> NoSet],
   latestCategories |-> NoSet,
   op |-> NoOp]

Done(c, name, key, result) ==
  [c EXCEPT !.op = [name |-> name, key |-> key, result |-> result,
                    flip |-> ~c.op.flip]]

\* a set or a clear: it returns nothing the history keeps
Written(c) == [c EXCEPT !.op = NoOp]

\* getCachedCategories(): the value it returns
CategoriesRead(c, now) ==
  IF now - c.categoriesCache.timestamp < TTL
  THEN c.categoriesCache.categories
  ELSE Null

GetCachedCategories ==
  /\ cache' = Done(cache, "getCachedCategories", "-",
                   CategoriesRead(cache, clock.now))
  /\ UNCHANGED <<woo, rows, wooCust, custRows, tasks, started, lastUp, issued,
                 probe, calls, clock>>

SetCachedCategories ==
  /\ \E data \in CategoryLists :
       cache' = Written([cache EXCEPT
                        !.categoriesCache = [categories |-> data,
                                             timestamp |-> clock.now],
                        !.latestCategories = [NoSet EXCEPT !.some = TRUE,
                                                !.value = data, !.at = clock.now]])
  /\ UNCHANGED <<woo, rows, wooCust, custRows, tasks, started, lastUp, issued,
                 probe, calls, clock>>

\* now - cached.timestamp > VARIATIONS_TTL
Expired(entry, now) == now - entry.timestamp > VARIATIONS_TTL

\* seeded fault: an entry of any age is served
VariationsRead_NoExpiry(c, key, now) ==
  IF c.variationsCache[key] = Null THEN Null
  ELSE c.variationsCache[key].variations

\* getCachedVariations(productId): the value it returns
VariationsRead(c, key, now) ==
  IF c.variationsCache[key] = Null THEN Null
  ELSE IF Expired(c.variationsCache[key], now) THEN Null
  ELSE c.variationsCache[key].variations

\* getCachedVariations(productId): an expired entry is deleted on the way
GetCachedVariations ==
  /\ \E p \in ProductIds :
       LET key == StringOf(p)
           cached == cache.variationsCache[key]
       IN  cache' = Done(
             IF cached # Null /\ Expired(cached, clock.now)
             THEN [cache EXCEPT !.variationsCache[key] = Null]
             ELSE cache,
             "getCachedVariations", key, VariationsRead(cache, key, clock.now))
  /\ UNCHANGED <<woo, rows, wooCust, custRows, tasks, started, lastUp, issued,
                 probe, calls, clock>>

SetCachedVariations ==
  /\ \E p \in ProductIds, v \in VariationLists :
       LET key == StringOf(p) IN
       cache' = Written([cache EXCEPT
                        !.variationsCache[key] = [variations |-> v,
                                                  timestamp |-> clock.now],
                        !.latest[key] = [NoSet EXCEPT !.some = TRUE, !.value = v,
                                                      !.at = clock.now]])
  /\ UNCHANGED <<woo, rows, wooCust, custRows, tasks, started, lastUp, issued,
                 probe, calls, clock>>

ClearCachedVariations ==
  /\ \E p \in ProductIds :
       LET key == StringOf(p) IN
       cache' = Written([cache EXCEPT !.variationsCache[key] = Null,
                                   !.latest[key].cleared = TRUE])
  /\ UNCHANGED <<woo, rows, wooCust, custRows, tasks, started, lastUp, issued,
                 probe, calls, clock>>

ClearAllVariationsCache ==
  /\ cache' = Written([cache EXCEPT
                      !.variationsCache = [k \in Keys |-> Null],
                      !.latest = [k \in Keys |-> [@[k] EXCEPT !.cleared = TRUE]]])
  /\ UNCHANGED <<woo, rows, wooCust, custRows, tasks, started, lastUp, issued,
                 probe, calls, clock>>

\* the loop of the setInterval callback over variationsCache.entries()
SweepMap(m, now) ==
  [k \in DOMAIN m |-> IF m[k] # Null /\ Expired(m[k], now) THEN Null ELSE m[k]]

\* the setInterval callback (it may run at any time: the period of ten
\* minutes is a lower bound that the event loop stretches)
Sweep ==
  /\ cache' = Done([cache EXCEPT
                      !.variationsCache = SweepMap(@, clock.now)],
                   "sweep", "-", Null)
  /\ UNCHANGED <<woo, rows, wooCust, custRows, tasks, started, lastUp, issued,
                 probe, calls, clock>>

\* time passes
Advance ==
  /\ clock.ticks < MaxTicks
  /\ \E d \in ClockSteps :
       clock' = [now |-> clock.now + d, ticks |-> clock.ticks + 1]
  /\ UNCHANGED <<woo, rows, wooCust, custRows, tasks, started, lastUp, issued,
                 probe, calls, cache>>

(***************************************************************************)
(* Specification                                                           *)
(***************************************************************************)
\* the row of storefront order 1 that a release without the POS gate mirrored
LegacyRow ==
  [woo_order_id |-> 1, order_number |-> "101", status |-> "paid", total |-> 50,
   updated_at |-> "2026-01-01T00:00:00Z", alteration_charge |-> 0, other_charge |-> 0]

Init ==
  /\ woo = InitialWoo
  /\ rows \in {<<>>, <<LegacyRow>>}
  /\ wooCust = InitialWooCust
  /\ custRows = <<>>
  /\ tasks = [t \in Tasks |-> IdleTask]
  /\ started = 0
  /\ lastUp = [id \in OrderIds |-> NoPrev]
  /\ issued = {}
  /\ probe = NoProbe
  /\ calls = [c \in Clients |-> NoHttp]
  /\ cache = InitialCache
  /\ clock = InitialClock

\* the order handlers, the reconciliation of orders and the migration pass
Next ==
  /\ UNCHANGED <<probe, calls, cache, clock>>
  /\ \E t \in Tasks :
      \/ StartSyncOrders(t)
      \/ SyncOrdersFetch(t)
      \/ StartCreateOrder(t)
      \/ CreateOrderRemote(t)
      \/ StartGetOrder(t)
      \/ GetOrderLookup(t)
      \/ GetOrderFetch(t)
      \/ StartCompleteOrder(t)
      \/ CompleteLookup(t)
      \/ CompleteRemote(t)
      \/ PatchStatusLookup(t)
      \/ PatchStatusWrite(t)
      \/ StartMigrate(t)
      \/ MigratePage(t)
      \/ MigrateFetch(t)
      \/ UpsertOrderLookup(t)
      \/ UpsertOrderWrite(t)

Spec == Init /\ [][Next]_vars

\* the customer handlers and the reconciliation of customers
NextCustomers ==
  /\ UNCHANGED <<probe, calls, cache, clock>>
  /\ \E t \in Tasks :
      \/ StartCreateCustomer(t)
      \/ CreateCustomerPhoneLookup(t)
      \/ CreateCustomerRemote(t)
      \/ StartUpdateCustomer(t)
      \/ UpdateCustomerRemote(t)
      \/ UpdateCustomerRefetch(t)
      \/ StartSyncCustomers(t)
      \/ SyncCustomersFetch(t)
      \/ UpsertCustomerLookup(t)
      \/ UpsertCustomerWrite(t)

SpecCustomers == Init /\ [][NextCustomers]_vars

\* the two reconciliation tasks cron schedules, possibly overlapping
NextSync ==
  /\ UNCHANGED <<probe, calls, cache, clock>>
  /\ \E t \in Tasks :
      \/ StartSyncOrders(t)
      \/ SyncOrdersFetch(t)
      \/ UpsertOrderLookup(t)
      \/ UpsertOrderWrite(t)
      \/ StartSyncCustomers(t)
      \/ SyncCustomersFetch(t)
      \/ UpsertCustomerLookup(t)
      \/ UpsertCustomerWrite(t)

SpecSync == Init /\ [][NextSync]_vars

\* every request that was sent is answered or fails (no client sets a timeout:
\* that each attempt ends is the network's part), and the event loop runs the
\* continuation of a settled await
SyncContinue(t) ==
  /\ UNCHANGED <<probe, calls, cache, clock>>
  /\ \/ SyncOrdersFetch(t)
     \/ UpsertOrderLookup(t)
     \/ UpsertOrderWrite(t)
     \/ SyncCustomersFetch(t)
     \/ UpsertCustomerLookup(t)
     \/ UpsertCustomerWrite(t)

SyncFairness == \A t \in Tasks : WF_vars(SyncContinue(t))

SpecSyncFair == Init /\ [][NextSync]_vars /\ SyncFairness

\* the three routes that write to the remote system and then to the mirror
NextMirror ==
  /\ UNCHANGED <<probe, calls, cache, clock>>
  /\ \E t \in Tasks :
      \/ StartCreateOrder(t)
      \/ CreateOrderRemote(t)
      \/ UpsertOrderLookup(t)
      \/ UpsertOrderWrite(t)
      \/ StartCreateCustomer(t)
      \/ CreateCustomerPhoneLookup(t)
      \/ CreateCustomerRemote(t)
      \/ StartUpdateCustomer(t)
      \/ UpdateCustomerRemote(t)
      \/ UpdateCustomerRefetch(t)
      \/ UpsertCustomerLookup(t)
      \/ UpsertCustomerWrite(t)

SpecMirror == Init /\ [][NextMirror]_vars

\* orderUtils.js applied to every order of InputOrders
InitProbe ==
  /\ woo = InitialWoo
  /\ rows = <<>>
  /\ wooCust = InitialWooCust
  /\ custRows = <<>>
  /\ tasks = [t \in Tasks |-> IdleTask]
  /\ started = 0
  /\ lastUp = [id \in OrderIds |-> NoPrev]
  /\ issued = {}
  /\ probe \in {[NoProbe EXCEPT !.order = o] : o \in InputOrders}
  /\ calls = [c \in Clients |-> NoHttp]
  /\ cache = InitialCache
  /\ clock = InitialClock

NextProbe ==
  \/ ProbeIsPosOrder
  \/ ProbeHasPosFlag
  \/ ProbeNormalize
  \/ ProbeNormalizeSkip

SpecProbe == InitProbe /\ [][NextProbe]_vars

\* buildWooOrderPayload and normalizeOrderForBaserow on the carts of the POS
MaxItems == 2

FmsComponents ==
  { [fabric_id |-> "F1", meters_per_unit |-> 2],
    [fabric_id |-> "F2", meters_per_unit |-> 3] }

CartItems ==
  { [product_id |-> 7, qty |-> q, fms_components |-> c] :
      q \in {1, 2},
      c \in {<<>>} \cup { <<x>> : x \in FmsComponents }
             \cup { <<x, y>> : x \in FmsComponents, y \in FmsComponents } }

InputCarts ==
  { [orderType |-> ot, measurements |-> m, items |-> its] :
      ot \in {"", "Alteration"},
      m \in {"", "chest 40"},
      its \in UNION { [1 .. n -> CartItems] : n \in 1 .. MaxItems } }

\* buildWooOrderPayload(cartData)
ProbeBuildPayload ==
  /\ probe.cart # Null /\ probe.payload = Null
  /\ probe' = [probe EXCEPT !.payload = BuildWooOrderPayload(probe.cart)]
  /\ UNCHANGED <<woo, rows, wooCust, custRows, tasks, started, lastUp, issued,
                 calls, cache, clock>>

\* normalizeOrderForBaserow(wooOrder, true) on the order the remote system
\* answers the create with
ProbeRoundTrip ==
  /\ probe.payload # Null /\ probe.roundTrip = Null
  /\ probe' = [probe EXCEPT !.roundTrip =
                 NormalizeOrderForBaserow(CreatedOrder(4, probe.payload, "100.00"),
                                          TRUE)]
  /\ UNCHANGED <<woo, rows, wooCust, custRows, tasks, started, lastUp, issued,
                 calls, cache, clock>>

InitCart ==
  /\ woo = InitialWoo
  /\ rows = <<>>
  /\ wooCust = InitialWooCust
  /\ custRows = <<>>
  /\ tasks = [t \in Tasks |-> IdleTask]
  /\ started = 0
  /\ lastUp = [id \in OrderIds |-> NoPrev]
  /\ issued = {}
  /\ probe \in {[NoProbe EXCEPT !.cart = c] : c \in InputCarts}
  /\ calls = [c \in Clients |-> NoHttp]
  /\ cache = InitialCache
  /\ clock = InitialClock

NextCart == ProbeBuildPayload \/ ProbeRoundTrip

SpecCart == InitCart /\ [][NextCart]_vars

(***************************************************************************)
(* sanitizeCustomerPayload in full (baserow.service.js), applied to        *)
(* customer inputs that carry a billing sub-object, address parts, an      *)
(* email and creation timestamps.  An absent field of the input is "" (a   *)
(* string) or 0 (an id): both are falsy in the code.                       *)
(***************************************************************************)
\* x || y on strings
OrElse(x, y) == IF x # "" THEN x ELSE y

\* new Date(ms).toISOString() for the instants of the model's clock
ToISOString(ms) ==
  CASE ms = StartTime     -> "1970-01-02T03:46:40.000Z"
    [] ms = StartTime + 1 -> "1970-01-02T03:46:40.001Z"
    [] OTHER              -> "1970-01-02T03:51:40.000Z"

\* seeded fault: the empty parts stay in the list
AddressParts_Unfiltered(customer) ==
  <<OrElse(customer.billing.address_1, customer.address_1),
    OrElse(customer.billing.address_2, customer.address_2),
    OrElse(customer.billing.city, customer.city),
    OrElse(customer.billing.state, customer.state),
    OrElse(customer.billing.postcode, customer.postcode),
    OrElse(customer.billing.country, customer.country)>>

\* const addressParts = [...].filter(Boolean)
AddressParts(customer) ==
  SelectSeq(<<OrElse(customer.billing.address_1, customer.address_1),
              OrElse(customer.billing.address_2, customer.address_2),
              OrElse(customer.billing.city, customer.city),
              OrElse(customer.billing.state, customer.state),
              OrElse(customer.billing.postcode, customer.postcode),
              OrElse(customer.billing.country, customer.country)>>,
            LAMBDA part : part # "")

\* seeded fault: the email is merged billing first, like the phone
SanitizedEmail_BillingFirst(customer) ==
  OrElse(customer.billing.email, customer.email)

\* email: customer.email || billing.email || ""
SanitizedEmail(customer) == OrElse(customer.email, customer.billing.email)

\* seeded fault: a creation timestamp is written only for an input without ids
CreatedAt_FirstCreationOnly(customer, now) ==
  IF customer.id # 0 \/ customer.woo_customer_id # 0 THEN <<>>
  ELSE IF customer.created_at # "" THEN <<customer.created_at>>
  ELSE IF customer.date_created # "" THEN <<customer.date_created>>
  ELSE <<ToISOString(now)>>

\* the if / else if chain that assigns sanitized.created_at: the value it
\* assigns, or the empty list when it assigns none
CreatedAt(customer, now) ==
  IF customer.created_at # "" THEN <<customer.created_at>>
  ELSE IF customer.date_created # "" THEN <<customer.date_created>>
  ELSE IF customer.id = 0 /\ customer.woo_customer_id = 0
       THEN <<ToISOString(now)>>
  ELSE <<>>

\* sanitizeCustomerPayload(customer) at the instant now; the inputs carry no
\* meta_data, so customer_type keeps its default
SanitizeCustomerRecord(customer, now) ==
  LET billing == customer.billing
      addressParts == AddressParts(customer)
      sanitized ==
        [first_name |-> customer.first_name,
         last_name |-> customer.last_name,
         phone |-> OrElse(billing.phone, customer.phone),
         email |-> SanitizedEmail(customer),
         address |-> IF Len(addressParts) > 0 THEN Join(addressParts, ", ")
                     ELSE "",
         address_line_2 |-> OrElse(billing.address_2, customer.address_2),
         city |-> OrElse(billing.city, customer.city),
         state |-> OrElse(billing.state, customer.state),
         postcode |-> OrElse(billing.postcode, customer.postcode),
         country |-> OrElse(OrElse(billing.country, customer.country), "IN"),
         customer_type |-> "Walk-in customer",
         updated_at |-> ToISOString(now)]
      withId ==
        IF customer.woo_customer_id # 0 \/ customer.id # 0
        THEN sanitized @@
             [woo_customer_id |-> IF customer.woo_customer_id # 0
                                  THEN customer.woo_customer_id
                                  ELSE customer.id]
        ELSE sanitized
      createdAt == CreatedAt(customer, now)
  IN  IF Len(createdAt) > 0 THEN withId @@ [created_at |-> createdAt[1]]
      ELSE withId

\* billing sub-objects of the inputs: every part present or absent
InputBillings ==
  [phone : {"", "98"}, email : {"", "bill@shop.in"},
   address_1 : {"", "12 Main St"}, address_2 : {"", "Flat 4"},
   city : {"", "Pune"}, state : {"", "MH"}, postcode : {"", "411001"},
   country : {"", "IN"}]

\* customer inputs: the top level repeats some of the billing fields with
\* other values, and carries the ids and the creation timestamps
InputCustomers ==
  [id : {0, 5}, woo_customer_id : {0, 9},
   first_name : {"Asha"}, last_name : {"Rao"},
   phone : {"77"}, email : {"", "asha@home.in"},
   address_1 : {"", "9 Hill Rd"}, address_2 : {""},
   city : {"", "Mumbai"}, state : {""}, postcode : {""},
   country : {"", "US"},
   created_at : {"", "2024-01-01T00:00:00"},
   date_created : {"", "2023-06-01T00:00:00"},
   billing : InputBillings]

\* sanitizeCustomerPayload(customer)
ProbeSanitizeCustomer ==
  /\ probe.customer # Null /\ probe.sanitized = Null
  /\ probe' = [probe EXCEPT !.sanitized =
                 SanitizeCustomerRecord(probe.customer, clock.now)]
  /\ UNCHANGED <<woo, rows, wooCust, custRows, tasks, started, lastUp, issued,
                 calls, cache, clock>>

InitSanitize ==
  /\ woo = InitialWoo
  /\ rows = <<>>
  /\ wooCust = InitialWooCust
  /\ custRows = <<>>
  /\ tasks = [t \in Tasks |-> IdleTask]
  /\ started = 0
  /\ lastUp = [id \in OrderIds |-> NoPrev]
  /\ issued = {}
  /\ probe \in {[NoProbe EXCEPT !.customer = c] : c \in InputCustomers}
  /\ calls = [c \in Clients |-> NoHttp]
  /\ cache = InitialCache
  /\ clock = InitialClock

NextSanitize == ProbeSanitizeCustomer

SpecSanitize == InitSanitize /\ [][NextSanitize]_vars

\* calls of the two clients
NextRetry ==
  \E c \in Clients :
    \/ SendRequest(c)
    \/ AttemptEnds(c)
    \/ RetryDelayEnds(c)

SpecRetry == Init /\ [][NextRetry]_vars

\* the operations of cache.js, the sweep timer and the clock
NextCache ==
  \/ GetCachedCategories
  \/ SetCachedCategories
  \/ GetCachedVariations
  \/ SetCachedVariations
  \/ ClearCachedVariations
  \/ ClearAllVariationsCache
  \/ Sweep
  \/ Advance

InitCache ==
  /\ woo = InitialWoo
  /\ rows = <<>>
  /\ wooCust = InitialWooCust
  /\ custRows = <<>>
  /\ tasks = [t \in Tasks |-> IdleTask]
  /\ started = 0
  /\ lastUp = [id \in OrderIds |-> NoPrev]
  /\ issued = {}
  /\ probe = NoProbe
  /\ calls = [c \in Clients |-> NoHttp]
  /\ cache = InitialCache
  /\ clock = InitialClock

SpecCache == InitCache /\ [][NextCache]_vars

\* an attempt that was sent ends with a response or an error (no client sets a
\* timeout: that it ends is the network's part), and the retry timer fires
RetryFairness ==
  \A c \in Clients : WF_vars(AttemptEnds(c)) /\ WF_vars(RetryDelayEnds(c))

SpecRetryFair == Init /\ [][NextRetry]_vars /\ RetryFairness

\* direct calls of patchOrderStatus on a table that holds mirrored rows
MaxStored == 2

\* the row the mirror holds for a remote order that was synced in a status
MirroredRow(id, wooStatus) ==
  SanitizeOrderPayload(
    NormalizeOrderForBaserow([InitialWoo[id] EXCEPT !.status = wooStatus], TRUE))

StoredRows ==
  {LegacyRow} \cup { MirroredRow(2, st) : st \in {"processing", "completed"} }

InitPatch ==
  /\ woo = InitialWoo
  /\ rows \in UNION { [1 .. n -> StoredRows] : n \in 0 .. MaxStored }
  /\ wooCust = InitialWooCust
  /\ custRows = <<>>
  /\ tasks = [t \in Tasks |-> IdleTask]
  /\ started = 0
  /\ lastUp = [id \in OrderIds |-> NoPrev]
  /\ issued = {}
  /\ probe = NoProbe
  /\ calls = [c \in Clients |-> NoHttp]
  /\ cache = InitialCache
  /\ clock = InitialClock

NextPatch ==
  /\ UNCHANGED <<probe, calls, cache, clock>>
  /\ \E t \in Tasks :
      \/ StartPatchOrderStatus(t)
      \/ PatchStatusLookup(t)
      \/ PatchStatusWrite(t)

SpecPatch == InitPatch /\ [][NextPatch]_vars

(***************************************************************************)
(* DELETE /customers/:id (routes.js) and the reconciliation pipeline       *)
(* together with it.                                                       *)
(***************************************************************************)
\* seeded fault: the route deletes the remote customer and its mirror rows
DeleteCustomerRequest_Deletes(t) ==
  /\ Free(t)
  /\ \E id \in CustIds :
       /\ tasks' = Settle(t, Respond([IdleTask EXCEPT !.kind = "deleteCustomer",
                                                      !.arg = id],
                                     [NoResp EXCEPT !.status = 200]))
       /\ wooCust' = [wooCust EXCEPT ![id].exists = FALSE]
       /\ custRows' = SelectSeq(custRows, LAMBDA r : r.woo_customer_id # id)
  /\ started' = started + 1
  /\ UNCHANGED <<woo, rows, lastUp, issued>>

\* router.delete("/customers/:id"): the handler answers at once
DeleteCustomerRequest(t) ==
  /\ Free(t)
  /\ \E id \in CustIds :
       tasks' = Settle(t, Respond([IdleTask EXCEPT !.kind = "deleteCustomer",
                                                   !.arg = id],
                                  [NoResp EXCEPT
                                     !.status = 405,
                                     !.message =
                                       "Customer deletion is not allowed in POS"]))
  /\ started' = started + 1
  /\ UNCHANGED <<woo, rows, wooCust, custRows, lastUp, issued>>

\* the reconciliation tasks, direct patchOrderStatus calls and customer-delete
\* requests
NextPipeline ==
  /\ UNCHANGED <<probe, calls, cache, clock>>
  /\ \E t \in Tasks :
      \/ StartSyncOrders(t)
      \/ SyncOrdersFetch(t)
      \/ UpsertOrderLookup(t)
      \/ UpsertOrderWrite(t)
      \/ StartSyncCustomers(t)
      \/ SyncCustomersFetch(t)
      \/ UpsertCustomerLookup(t)
      \/ UpsertCustomerWrite(t)
      \/ StartPatchOrderStatus(t)
      \/ PatchStatusLookup(t)
      \/ PatchStatusWrite(t)
      \/ DeleteCustomerRequest(t)

SpecPipeline == Init /\ [][NextPipeline]_vars

(***************************************************************************)
(* Direct calls of the exported upsertCustomer(customer).                  *)
(***************************************************************************)
\* the records of the direct calls: two without an id (id 0 stands for no id
\* and no woo_customer_id), one with the id of a remote customer
DirectCustomers ==
  { WooCustomer(0, "Meera", "55", TRUE),
    WooCustomer(0, "Meera", "98", TRUE),
    WooCustomer(1, "Asha", "98", TRUE) }

\* a direct call upsertCustomer(customer)
StartUpsertCustomer(t) ==
  /\ Free(t)
  /\ \E customer \in DirectCustomers :
       tasks' = Settle(t, CallUpsertCustomer(
                            [IdleTask EXCEPT !.kind = "upsertCustomer",
                                             !.cust = customer],
                            customer))
  /\ started' = started + 1
  /\ UNCHANGED <<woo, rows, wooCust, custRows, lastUp, issued>>

NextUpsertCustomer ==
  /\ UNCHANGED <<probe, calls, cache, clock>>
  /\ \E t \in Tasks :
      \/ StartUpsertCustomer(t)
      \/ UpsertCustomerLookup(t)
      \/ UpsertCustomerWrite(t)

SpecUpsertCustomer == Init /\ [][NextUpsertCustomer]_vars

(***************************************************************************)
(* Properties                                                              *)
(***************************************************************************)
\* C1: after any sequence of order creations, get-by-id fallbacks, order-sync
\* runs and migration passes, upsertOrder has sent an insert or a patch only
\* for remote orders that isPosOrder classifies as POS; for a remote order
\* without a _pos_order = "yes" entry the default-mode normalization is null,
\* no write was ever sent for it, and the only row it can have is the one the
\* table held before the first step.
C1_OnlyPosOrdersMirrored ==
  /\ \A fid \in issued : IsPosOrder(woo[fid])
  /\ \A fid \in Existing(woo) :
       ~HasPosYesEntry(woo[fid]) =>
         /\ NormalizeOrderForBaserow(woo[fid], FALSE) = Null
         /\ fid \notin issued
         /\ CountRows(rows, fid) <= 1

\* a sync run of the version without the classification step has gone through
\* the storefront order and the POS orders, and a write was sent for a POS order
C1_Witness ==
  \E t \in Tasks :
    /\ tasks[t].kind = "syncOrdersLegacy" /\ tasks[t].pc = "done"
    /\ Len(tasks[t].list) >= 3 /\ tasks[t].idx > Len(tasks[t].list)
    /\ \E i \in 1 .. Len(tasks[t].list) : ~HasPosYesEntry(tasks[t].list[i])
    /\ 2 \in issued
    /\ CountRows(rows, 2) >= 1

\* the call in up and the last call that returned before it started: both ran
\* without a failed request and without another call for the id in progress
CleanPair(up) ==
  /\ up.st = "ret" /\ up.valid = "ok"
  /\ ~up.faulted /\ ~up.overlap
  /\ up.prev.some /\ up.prev.clean
  /\ up.prev.order = up.order

\* C2: idempotence of upsertOrder.  Two calls with the same valid record for
\* foreign id F, the second starting after the first returned, the first
\* finding no row for F, every request of both answered: the first returned
\* ok with action "created", the second ok with action "updated", and exactly
\* one row for F is in the table when the second returns.
C2_UpsertOrderIdempotent ==
  \A t \in Tasks :
    LET up == tasks[t].up IN
    (CleanPair(up) /\ up.prev.rowsAtLookup = 0) =>
      /\ up.prev.ok /\ up.prev.action = "created"
      /\ up.ok /\ up.action = "updated"
      /\ up.rowsAfter = 1

\* the second of two such calls has returned "updated"
C2_Witness ==
  \E t \in Tasks :
    /\ CleanPair(tasks[t].up) /\ tasks[t].up.prev.rowsAtLookup = 0
    /\ tasks[t].up.action = "updated"
    /\ CountRows(rows, tasks[t].up.fid) = 1

\* two calls for one foreign id whose lookups both completed, finding no row,
\* before either write, and whose writes were both answered
RacedPair(a, b) ==
  /\ a # b
  /\ tasks[a].up.st = "ret" /\ tasks[b].up.st = "ret"
  /\ tasks[a].up.fid # 0 /\ tasks[a].up.fid = tasks[b].up.fid
  /\ tasks[a].up.raced /\ tasks[b].up.raced
  /\ tasks[a].up.rowsAtLookup = 0 /\ tasks[b].up.rowsAtLookup = 0
  /\ tasks[a].up.ok /\ tasks[b].up.ok

\* C3: the existence check and the write of upsertOrder are not atomic.  When
\* two calls for the same foreign id interleave so that both lookups complete
\* before either write, both take the create branch and the table holds two
\* rows for that id.
C3_RaceCreatesTwoRows ==
  \A a, b \in Tasks :
    RacedPair(a, b) =>
      /\ tasks[a].up.action = "created" /\ tasks[b].up.action = "created"
      /\ tasks[a].up.existing = 0 /\ tasks[b].up.existing = 0
      /\ CountRows(rows, tasks[a].up.fid) >= 2

\* two overlapping sync runs have both inserted a row for the same order
C3_Witness ==
  \E a, b \in Tasks :
    /\ RacedPair(a, b)
    /\ tasks[a].kind \in SyncKinds /\ tasks[b].kind \in SyncKinds
    /\ CountRows(rows, tasks[a].up.fid) = 2

Count(seq, v) == Cardinality({i \in 1 .. Len(seq) : seq[i] = v})

AllSyncKinds == SyncKinds \cup {"syncCustomers"}

\* C4: in a sync run a record that fails (upsert returned ok = false, or
\* threw) does not keep any other fetched record from being handled: at the
\* end of the run every fetched record has its outcome, syncedCount is the
\* number of records whose upsert succeeded and errorCount the number that
\* failed; every fetched POS order was handed to upsertOrder, and each order
\* counted as synced has its row.  Orders and customers alike.
C4_SyncIsolatesFailures ==
  \A t \in Tasks :
    LET task == tasks[t] IN
    /\ (task.kind \in AllSyncKinds /\ task.pc \in {"upsert", "cupsert"}) =>
         Len(task.results) = task.idx - 1
    /\ (task.kind \in AllSyncKinds /\ task.pc = "done") =>
         /\ Len(task.results) = Len(task.list)
         /\ task.syncedCount = Count(task.results, "ok")
         /\ task.errorCount = Count(task.results, "failed")
         /\ task.skippedCount = Count(task.results, "skipped")
         /\ task.kind \in SyncKinds =>
              \A i \in 1 .. Len(task.list) :
                /\ IsPosOrder(task.list[i]) => task.results[i] \in {"ok", "failed"}
                /\ task.results[i] = "ok" => CountRows(rows, task.list[i].id) >= 1

\* the record at position i failed and a later record was synced
FailedThenSynced(task) ==
  /\ task.pc = "done"
  /\ \E i, j \in 1 .. Len(task.results) :
       i < j /\ task.results[i] = "failed" /\ task.results[j] = "ok"
  /\ task.syncedCount >= 1 /\ task.errorCount >= 1

\* an order-sync run and a customer-sync run have both ended with a failed
\* record followed by a synced one
C4_Witness ==
  /\ \E t \in Tasks : tasks[t].kind \in SyncKinds /\ FailedThenSynced(tasks[t])
  /\ \E t \in Tasks : tasks[t].kind = "syncCustomers" /\ FailedThenSynced(tasks[t])

\* the phone lookup of a create-customer request was answered while the
\* customers table held a row with the trimmed phone
DuplicatePhoneSeen(task) ==
  /\ task.kind = "createCustomer"
  /\ task.pc \notin {"idle", "phone_lookup"}
  /\ task.dupAtLookup /\ task.lookupAnswered

MirrorFailed(task) ==
  /\ task.pc = "done" /\ task.remoteOk
  /\ \/ task.kind = "createOrder" /\ task.up.st = "ret" /\ ~task.up.ok
     \/ task.kind = "createCustomer" /\ task.cup.st = "ret" /\ task.cup.thrown
     \/ task.kind = "updateCustomer" /\ (task.cup.st = "none" \/ task.cup.thrown)

\* C6: for order creation, customer creation and customer update, a mirror
\* write that fails after the remote write succeeded leaves the response a
\* success: 201 with baserow.ok = false and the order, 201 with the fallback
\* customer record, success = true for the update.
C6_MirrorFailureStaysSuccess ==
  \A t \in Tasks :
    LET task == tasks[t] IN
    MirrorFailed(task) =>
      CASE task.kind = "createOrder" ->
             /\ task.resp.status = 201
             /\ task.resp.woo_ok /\ ~task.resp.baserow_ok
             /\ task.resp.order = task.order
        [] task.kind = "createCustomer" ->
             /\ task.resp.status = 201
             /\ task.resp.customer # Null
             /\ task.resp.customer.woo_customer_id = task.cust.id
        [] OTHER ->
             task.resp.status = 200 /\ task.resp.success

\* an order creation and a customer creation both ended 201 after their
\* mirror write request failed
C6_Witness ==
  \E a, b \in Tasks :
    /\ tasks[a].kind = "createOrder" /\ MirrorFailed(tasks[a])
    /\ tasks[a].up.faulted /\ tasks[a].resp.status = 201
    /\ tasks[b].kind = "createCustomer" /\ MirrorFailed(tasks[b])
    /\ tasks[b].resp.status = 201

\* C7: mark-order-completed.  Once the remote status update has succeeded, a
\* throw of patchOrderStatus does not fail the request: the response is not
\* an error response.
C7_PatchFailureDoesNotBlock ==
  \A t \in Tasks :
    (/\ tasks[t].kind = "completeOrder" /\ tasks[t].pc = "done"
     /\ tasks[t].remoteOk /\ tasks[t].up.thrown) =>
      tasks[t].resp.status < 400

\* an upsertOrder call that returned on a record failing validateOrderSchema
Rejected(up) == up.st = "ret" /\ up.valid \notin {"-", "ok"}

\* C8: a record that fails schema validation (a required field missing, or a
\* status outside the allowed values) makes upsertOrder send no request to
\* the store: no lookup, no patch, no insert; the remote orders whose record
\* fails validation have no write sent for them and no row.
C8_InvalidRecordSendsNothing ==
  /\ \A t \in Tasks :
       Rejected(tasks[t].up) =>
         /\ tasks[t].up.reqs = 0
         /\ tasks[t].up.action = "-" /\ ~tasks[t].up.ok
         /\ tasks[t].up.rowsAfter = 0 /\ tasks[t].up.existing = 0
  /\ \A fid \in Existing(woo) :
       ValidateOrderSchema(NormalizeOrderForBaserow(woo[fid], TRUE)) # "ok" =>
         fid \notin issued /\ CountRows(rows, fid) = 0

\* the fallback of GET /orders/:id handed a record with a status outside the
\* allowed values to upsertOrder
C8_Witness ==
  \E t \in Tasks :
    /\ tasks[t].kind = "getOrder" /\ tasks[t].pc = "done"
    /\ Rejected(tasks[t].up) /\ tasks[t].up.valid =
         "Invalid status: refund. Must be one of: paid, completed, cancelled"
    /\ tasks[t].up.reqs = 0
    /\ CountRows(rows, tasks[t].arg) = 0

\* C9, as claimed: a schema validation failure leaves upsertOrder as an
\* exception and the POS caller sees the validation message.
C9_ValidationFailureRaised ==
  \A t \in Tasks :
    Rejected(tasks[t].up) =>
      /\ tasks[t].up.thrown
      /\ (tasks[t].kind = "createOrder" /\ tasks[t].pc = "done") =>
           tasks[t].resp.message = tasks[t].up.error

\* C9: a schema validation failure is caught inside upsertOrder like every
\* other failure and returned as {ok: false, error}; it is never raised.
\* Order creation answers 201 with baserow.ok = false and without the
\* validation message.
C9_ValidationFailureIsSoft ==
  \A t \in Tasks :
    Rejected(tasks[t].up) =>
      /\ ~tasks[t].up.thrown /\ ~tasks[t].up.ok
      /\ tasks[t].up.error = tasks[t].up.valid
      /\ (tasks[t].kind = "createOrder" /\ tasks[t].pc = "done") =>
           /\ tasks[t].resp.status = 201
           /\ tasks[t].resp.woo_ok /\ ~tasks[t].resp.baserow_ok
           /\ tasks[t].resp.message # tasks[t].up.error

\* an order creation whose record failed validation (total 0) ended 201
C9_Witness ==
  \E t \in Tasks :
    /\ tasks[t].kind = "createOrder" /\ tasks[t].pc = "done"
    /\ Rejected(tasks[t].up) /\ tasks[t].up.valid = "Missing required fields: total"
    /\ tasks[t].resp.status = 201 /\ ~tasks[t].resp.baserow_ok

\* C10: upsertOrder accepts the four normalized statuses.  A record with
\* status "refund" whose other required fields are present passes validation,
\* and once its write is answered the row is in the table with status "refund".
C10_RefundAccepted ==
  \A t \in Tasks :
    LET up == tasks[t].up IN
    (/\ up.st = "ret" /\ up.order # Null
     /\ up.order.status = "refund"
     /\ up.order.woo_order_id # 0 /\ up.order.order_number # ""
     /\ up.order.total # 0) =>
      /\ up.valid = "ok"
      /\ up.ok => \E i \in 1 .. Len(rows) :
                    /\ rows[i].woo_order_id = up.order.woo_order_id
                    /\ rows[i].status = "refund"

\* the step is the write of task t's upsertOrder call
OrderWriteStep(t) ==
  /\ tasks[t].pc = "upsert" /\ tasks[t].up.st = "write"
  /\ tasks'[t].up.st # "write"

\* the step is the write of task t's upsertCustomer call
CustomerWriteStep(t) == tasks'[t].mirrorWrites = tasks[t].mirrorWrites + 1

\* rs2 is rs with row id replaced by itself overwritten with fields
OnlyRowPatched(rs, rs2, id, fields) ==
  /\ Len(rs2) = Len(rs)
  /\ \A i \in 1 .. Len(rs) : i # id => rs2[i] = rs[i]
  /\ \A f \in DOMAIN rs[id] :
       rs2[id][f] = IF f \in DOMAIN fields THEN fields[f] ELSE rs[id][f]

\* C11: for a valid record upsertOrder issues one write: a patch of the row
\* its lookup returned, with result action "updated", or an insert when the
\* lookup returned no row, with result action "created"; upsertCustomer
\* patches or inserts the same way, keyed on woo_customer_id.  The write
\* changes no other row (and nothing when the request fails).
C11_OneWritePerUpsert ==
  [][\A t \in Tasks :
       /\ OrderWriteStep(t) =>
            LET up == tasks[t].up
                res == lastUp'[up.fid]
                rec == SanitizeOrderPayload(up.order)
            IN  /\ up.valid = "ok" /\ up.reqs = 2
                /\ custRows' = custRows
                /\ \/ ~res.ok /\ rows' = rows
                   \/ /\ res.ok /\ up.existing # 0 /\ res.action = "updated"
                      /\ rows[up.existing].woo_order_id = up.fid
                      /\ OnlyRowPatched(rows, rows', up.existing, rec)
                   \/ /\ res.ok /\ up.existing = 0 /\ res.action = "created"
                      /\ rows' = Append(rows, rec)
       /\ CustomerWriteStep(t) =>
            LET cup == tasks[t].cup IN
            /\ rows' = rows
            /\ \/ custRows' = custRows
               \/ /\ cup.existing # 0
                  /\ custRows[cup.existing].woo_customer_id
                       = cup.sanitized.woo_customer_id
                  /\ OnlyRowPatched(custRows, custRows', cup.existing, cup.sanitized)
               \/ /\ cup.existing = 0
                  /\ custRows' = Append(custRows, cup.sanitized)
    ]_vars

\* a second sync run has patched the row the first one inserted
C11_Witness ==
  /\ lastUp[2].some /\ lastUp[2].ok /\ lastUp[2].action = "updated"
  /\ CountRows(rows, 2) = 1

\* the write request of the returned upsertOrder call failed
OrderWriteFailed(up) == up.st = "ret" /\ up.valid = "ok" /\ up.error = "request failed"

\* the write request of the returned upsertCustomer call failed
CustomerWriteFailed(cup) == cup.st = "ret" /\ cup.writeFailed

\* C12, as claimed: a failed write (patch or insert) of an upsert is caught and
\* returned as a soft failure, never raised, by upsertOrder and by
\* upsertCustomer alike.
C12_WriteFailureSoftForBoth ==
  \A t \in Tasks :
    /\ OrderWriteFailed(tasks[t].up) => ~tasks[t].up.thrown /\ ~tasks[t].up.ok
    /\ CustomerWriteFailed(tasks[t].cup) => ~tasks[t].cup.thrown

\* C12: a failed write of upsertOrder is caught and returned as {ok: false};
\* a failed write of upsertCustomer is logged and raised again to the caller,
\* and each caller catches it (201 with the fallback record, success = true
\* for an update, one more error in a customer-sync run).
C12_OrderSoftCustomerRaised ==
  \A t \in Tasks :
    LET task == tasks[t] IN
    /\ OrderWriteFailed(task.up) =>
         ~task.up.thrown /\ ~task.up.ok /\ task.up.action = "-"
    /\ CustomerWriteFailed(task.cup) =>
         /\ task.cup.thrown /\ task.cup.data = Null
         /\ task.kind = "createCustomer" => task.resp.status = 201
         /\ task.kind = "updateCustomer" => task.resp.success
         /\ task.kind = "syncCustomers" =>
              /\ task.errorCount >= 1
              /\ task.results[Len(task.results)] = "failed"

\* an order creation got {ok: false} from a failed insert and a customer
\* update caught the exception of a failed customer write
C12_Witness ==
  \E a, b \in Tasks :
    /\ tasks[a].kind = "createOrder" /\ OrderWriteFailed(tasks[a].up)
    /\ tasks[a].pc = "done"
    /\ tasks[b].kind = "updateCustomer" /\ CustomerWriteFailed(tasks[b].cup)
    /\ tasks[b].cup.thrown /\ tasks[b].pc = "done"

\* the fixed status table of the claim
StatusImage(wooStatus) ==
  CASE wooStatus \in {"checkout-draft", "pending", "processing", "on-hold"} -> "paid"
    [] wooStatus = "completed" -> "completed"
    [] wooStatus \in {"cancelled", "failed"} -> "cancelled"
    [] wooStatus = "refunded" -> "refund"
    [] OTHER -> "paid"

\* the meta_data list holds an entry with key _pos_order and value "yes"
CarriesPosYes(o) ==
  \E i \in 1 .. Len(o.meta_data) :
    o.meta_data[i].key = "_pos_order" /\ o.meta_data[i].value = "yes"

\* C13: for every remote order carrying _pos_order = "yes",
\* normalizeOrderForBaserow returns a non-null record whose status is the
\* image of the remote status under the fixed table, hence one of paid,
\* completed, cancelled, refund.
C13_PosOrderAlwaysNormalized ==
  CarriesPosYes(probe.order) =>
    /\ "normalize" \in probe.calls =>
         /\ probe.normalized # Null
         /\ probe.normalized.status = StatusImage(probe.order.status)
         /\ probe.normalized.status \in {"paid", "completed", "cancelled", "refund"}
    /\ "normalizeSkip" \in probe.calls =>
         /\ probe.normalizedSkip # Null
         /\ probe.normalizedSkip.status = StatusImage(probe.order.status)
         /\ probe.normalizedSkip.status \in {"paid", "completed", "cancelled", "refund"}

\* C14: POS classification is one predicate wherever it is evaluated: for
\* every remote order, also one whose meta_data holds several _pos_order
\* entries, isPosOrder is true iff the list holds an entry _pos_order = "yes",
\* and it agrees with the hasPosFlag test of the cleanup pass.
C14_ClassificationAgrees ==
  /\ "isPosOrder" \in probe.calls => (probe.isPos <=> CarriesPosYes(probe.order))
  /\ {"isPosOrder", "hasPosFlag"} \subseteq probe.calls =>
       (probe.isPos <=> probe.hasPosFlag)


\* the status the claim's table gives for an input and the row's status
ClaimedPatchStatus(status, current) ==
  CASE status = "completed" -> "completed"
    [] status = "cancelled" -> "cancelled"
    [] status = "processing" -> "paid"
    [] status = "pending" -> "paid"
    [] status = "on-hold" -> "paid"
    [] OTHER -> current

\* task t is inside patchOrderStatus and takes its next step
PatchStep(t) ==
  /\ tasks[t].pc \in {"patch_lookup", "patch_write"}
  /\ tasks'[t].pc # tasks[t].pc

\* C15: a step of patchOrderStatus either leaves the table as it is or changes
\* exactly the row its lookup found, and of that row only status and
\* updated_at: every other field of the row and every other row stay as they
\* were, and the status written is "completed" for completed, "cancelled" for
\* cancelled, "paid" for processing, pending and on-hold, and for any other
\* input the status the row had when the call read it.  When the lookup finds
\* no row the call writes nothing and returns null.
C15_PatchWritesStatusOnly ==
  [][\A t \in Tasks : PatchStep(t) =>
       /\ Len(rows') = Len(rows)
       /\ tasks[t].pc = "patch_lookup" => rows' = rows
       /\ (tasks[t].pc = "patch_lookup" /\ tasks'[t].pc = "done") =>
            /\ tasks'[t].patched = Null
            /\ tasks'[t].resp.order = Null
            /\ ~tasks'[t].up.thrown
       /\ (tasks[t].pc = "patch_write" /\ rows' # rows) =>
            LET id == tasks[t].existing.id IN
            /\ \A i \in 1 .. Len(rows) : i # id => rows'[i] = rows[i]
            /\ \A f \in DOMAIN rows[id] \ {"status", "updated_at"} :
                 rows'[id][f] = rows[id][f]
            /\ DOMAIN rows'[id] = DOMAIN rows[id]
            /\ rows'[id].status =
                 ClaimedPatchStatus(tasks[t].newStatus, tasks[t].existing.row.status)
       /\ (tasks[t].pc = "patch_write" /\ ~tasks'[t].up.thrown) =>
            /\ rows'[tasks[t].existing.id].updated_at = PatchTime
            /\ rows'[tasks[t].existing.id].status =
                 ClaimedPatchStatus(tasks[t].newStatus, tasks[t].existing.row.status)
     ]_vars

\* a direct call with a status outside the table patched the second of two
\* rows and kept its status; another call found no row and returned null
C15_Witness ==
  /\ Len(rows) = 2
  /\ tasks["t1"].kind = "patchOrderStatus" /\ tasks["t1"].pc = "done"
  /\ tasks["t1"].newStatus = "refunded"
  /\ tasks["t1"].patched # Null
  /\ tasks["t1"].existing.id = 2
  /\ tasks["t1"].patched.status = tasks["t1"].existing.row.status
  /\ rows[2].updated_at = PatchTime
  /\ rows[1].updated_at # PatchTime
  /\ tasks["t2"].kind = "patchOrderStatus" /\ tasks["t2"].pc = "done"
  /\ tasks["t2"].existing = Null /\ tasks["t2"].patched = Null


\* a reconciliation run that has its list
SyncRun(task) == task.kind \in SyncKinds \cup {"syncCustomers"}

\* records of the run taken in list order, each once, at most one unfinished
InOrderOneAtATime(task) ==
  /\ \A i \in 1 .. Len(task.visited) : task.visited[i] = i
  /\ Len(task.visited) <= Len(task.list)
  /\ Len(task.results) <= Len(task.visited)
  /\ Len(task.visited) <= Len(task.results) + 1
  /\ Len(task.visited) = Len(task.results) + 1 <=>
       task.pc \in {"upsert", "cupsert"}
  /\ task.pc = "done" =>
       \/ Len(task.visited) = Len(task.list) /\ Len(task.results) = Len(task.list)
       \/ task.list = <<>>

C17_NonPosSkippedNotAnError ==
  \A t \in Tasks :
    tasks[t].kind \in SyncKinds =>
      /\ \A i \in 1 .. Len(tasks[t].results) :
           ~IsPosOrder(tasks[t].list[i]) => tasks[t].results[i] = "skipped"
      /\ tasks[t].errorCount =
           Cardinality({i \in 1 .. Len(tasks[t].results) :
                          IsPosOrder(tasks[t].list[i]) /\ tasks[t].results[i] = "failed"})
      /\ (tasks[t].pc = "upsert" /\ tasks[t].up.st # "none") =>
           tasks[t].up.order # Null


\* the client schedules a retry of call c in this step
RetryScheduled(c) == calls'[c].retryCount > calls[c].retryCount

CacheOp(name) == cache'.op # cache.op /\ cache'.op.name = name

\* C19: with set, get, clear and sweep in any order and the clock advancing, a
\* read never returns an entry older than its TTL.  getCachedVariations(p)
\* returns the value of the latest setCachedVariations(p, v) when no clear
\* followed it and it is at most 5 minutes old, and null otherwise;
\* getCachedCategories returns the latest value set when it is less than 6
\* hours old, and null before any set and after expiry; the sweep removes
\* only entries older than 5 minutes and changes nothing else.
C19_CacheReadsWithinTTL ==
  [][/\ CacheOp("getCachedVariations") =>
          LET l == cache.latest[cache'.op.key] IN
          cache'.op.result =
            IF l.some /\ ~l.cleared /\ clock.now - l.at <= 5 * 60 * 1000
            THEN l.value ELSE Null
     /\ CacheOp("getCachedCategories") =>
          LET l == cache.latestCategories IN
          cache'.op.result =
            IF l.some /\ clock.now - l.at < 6 * 60 * 60 * 1000
            THEN l.value ELSE Null
     /\ CacheOp("sweep") =>
          /\ cache'.categoriesCache = cache.categoriesCache
          /\ \A k \in Keys :
               \/ cache'.variationsCache[k] = cache.variationsCache[k]
               \/ /\ cache'.variationsCache[k] = Null
                  /\ clock.now - cache.variationsCache[k].timestamp > 5 * 60 * 1000
    ]_vars

\* a read of product 12 one millisecond after its entry expired returned null
\* while the entry of product 7, set later, is still in the Map
C19_Witness ==
  /\ cache.op.name = "getCachedVariations" /\ cache.op.key = "12"
  /\ cache.op.result = Null
  /\ cache.latest["12"].some /\ ~cache.latest["12"].cleared
  /\ clock.now - cache.latest["12"].at = 5 * 60 * 1000 + 1
  /\ cache.variationsCache["12"] = Null
  /\ cache.variationsCache["7"] # Null
  /\ cache.categoriesCache.categories # Null


\* the amount of the first fee line of the name, 0 when there is none
FirstFeeNamed(fees, name) ==
  LET named == {i \in 1 .. Len(fees) : fees[i].name = name} IN
  IF named = {} THEN 0
  ELSE LET first == CHOOSE i \in named : \A j \in named : i <= j
       IN  CASE fees[first].total = "50.00" -> 50
             [] fees[first].total = "100.00" -> 100
             [] OTHER -> 0

\* C20: in the record normalizeOrderForBaserow returns, alteration_charge is
\* the total of the first fee line named exactly "Alteration Charges" and
\* other_charge the total of the first fee line named exactly "Other Charges",
\* each 0 when the order has no such line; fee lines of any other name, such
\* as "Gift Wrap", count for neither.
C20_FeesByExactName ==
  \A r \in {probe.normalized, probe.normalizedSkip} :
    r # Null =>
      /\ r.alteration_charge = FirstFeeNamed(probe.order.fee_lines, "Alteration Charges")
      /\ r.other_charge = FirstFeeNamed(probe.order.fee_lines, "Other Charges")
      /\ (\A i \in 1 .. Len(probe.order.fee_lines) :
            probe.order.fee_lines[i].name = "Gift Wrap")
           => r.alteration_charge = 0 /\ r.other_charge = 0

\* an order with two "Alteration Charges" lines of 50 and 100 was normalized:
\* the first one counts
C20_Witness ==
  /\ probe.normalizedSkip # Null
  /\ Len(probe.order.fee_lines) = 2
  /\ probe.order.fee_lines[1] = [name |-> "Alteration Charges", total |-> "50.00"]
  /\ probe.order.fee_lines[2] = [name |-> "Alteration Charges", total |-> "100.00"]
  /\ probe.normalizedSkip.alteration_charge = 50
  /\ probe.normalizedSkip.other_charge = 0


\* the components the record keeps for line i: none when the line has no
\* meta_data of the key
KeptComponents(recordItems, i) ==
  IF "meta_data" \in DOMAIN recordItems[i] /\ Len(recordItems[i].meta_data) > 0
  THEN recordItems[i].meta_data[1].value.json
  ELSE <<>>

\* C21: the record normalizeOrderForBaserow(order, true) returns for the order
\* echoed from buildWooOrderPayload(cart) has the cart's order_type and
\* measurements (the defaults "Normal Sale" and "-" for empty ones) and keeps,
\* for every item of the cart, each of its fabric components with
\* meters_total = meters_per_unit * quantity.
C21_RoundTripKeepsFabricComponents ==
  probe.roundTrip # Null =>
    LET cart == probe.cart
        items == probe.roundTrip.items.json
    IN  /\ probe.roundTrip.order_type =
             (IF cart.orderType = "" THEN "Normal Sale" ELSE cart.orderType)
        /\ probe.roundTrip.measurements =
             (IF cart.measurements = "" THEN "-" ELSE cart.measurements)
        /\ Len(items) = Len(cart.items)
        /\ \A i \in 1 .. Len(cart.items) :
             /\ items[i].quantity = cart.items[i].qty
             /\ Len(KeptComponents(items, i)) = Len(cart.items[i].fms_components)
             /\ \A k \in 1 .. Len(KeptComponents(items, i)) :
                  KeptComponents(items, i)[k].meters_total =
                    KeptComponents(items, i)[k].meters_per_unit * items[i].quantity


(***************************************************************************)
(* Customer normalization: address, billing merge and created_at.          *)
(***************************************************************************)
\* the billing value of a field when it is non-empty, else the top-level one
BillingFirst(customer, field) ==
  IF customer.billing[field] # "" THEN customer.billing[field]
  ELSE customer[field]

\* the parts appended from left to right, each non-empty part after a ", "
\* unless it is the first one kept
RECURSIVE Flatten(_, _, _, _)
Flatten(customer, fields, i, acc) ==
  IF i > Len(fields) THEN acc
  ELSE LET part == BillingFirst(customer, fields[i])
       IN  Flatten(customer, fields, i + 1,
                   IF part = "" THEN acc
                   ELSE IF acc = "" THEN part
                   ELSE acc \o ", " \o part)

AddressFields ==
  <<"address_1", "address_2", "city", "state", "postcode", "country">>

\* the billing sub-object of the example: address_1, city and country given
ExampleBilling(billing) ==
  /\ billing.address_1 = "12 Main St" /\ billing.address_2 = ""
  /\ billing.city = "Pune" /\ billing.state = ""
  /\ billing.postcode = "" /\ billing.country = "IN"

\* C22: the address of the normalized customer is the list address_1,
\* address_2, city, state, postcode, country, each part taken from billing when
\* non-empty there and else from the top level, with the empty parts removed
\* and the others joined by ", "; the example billing yields
\* "12 Main St, Pune, IN".
C22_AddressFlattening ==
  probe.sanitized # Null =>
    /\ probe.sanitized.address = Flatten(probe.customer, AddressFields, 1, "")
    /\ ExampleBilling(probe.customer.billing) =>
         probe.sanitized.address = "12 Main St, Pune, IN"

\* the example input has been normalized
C22_Witness ==
  /\ probe.sanitized # Null
  /\ ExampleBilling(probe.customer.billing)
  /\ probe.customer.city = "Mumbai"
  /\ probe.sanitized.address = "12 Main St, Pune, IN"

\* C23 as stated: phone, email, address parts, city, state, postcode and
\* country are all merged billing first.
C23_BillingFirstMerge ==
  probe.sanitized # Null =>
    /\ \A f \in {"phone", "email", "city", "state", "postcode"} :
         probe.sanitized[f] = BillingFirst(probe.customer, f)
    /\ probe.sanitized.address_line_2 = BillingFirst(probe.customer, "address_2")
    /\ BillingFirst(probe.customer, "country") # "" =>
         probe.sanitized.country = BillingFirst(probe.customer, "country")
    /\ probe.sanitized.address = Flatten(probe.customer, AddressFields, 1, "")

\* C23: phone, address_2, city, state, postcode and country are merged billing
\* first (country is "IN" when both are empty), and so are the parts of the
\* address; the email is merged the other way round: the top-level email when
\* it is non-empty, the billing email only when the top level has none.
C23_BillingFirstExceptEmail ==
  probe.sanitized # Null =>
    /\ \A f \in {"phone", "city", "state", "postcode"} :
         probe.sanitized[f] = BillingFirst(probe.customer, f)
    /\ probe.sanitized.address_line_2 = BillingFirst(probe.customer, "address_2")
    /\ probe.sanitized.country =
         IF BillingFirst(probe.customer, "country") # ""
         THEN BillingFirst(probe.customer, "country") ELSE "IN"
    /\ probe.sanitized.address = Flatten(probe.customer, AddressFields, 1, "")
    /\ probe.sanitized.email =
         IF probe.customer.email # "" THEN probe.customer.email
         ELSE probe.customer.billing.email

\* an input with two different emails and two different cities is normalized:
\* the city is the billing one, the email the top-level one
C23_Witness ==
  /\ probe.sanitized # Null
  /\ probe.customer.email = "asha@home.in"
  /\ probe.customer.billing.email = "bill@shop.in"
  /\ probe.customer.city = "Mumbai" /\ probe.customer.billing.city = "Pune"
  /\ probe.sanitized.email = "asha@home.in"
  /\ probe.sanitized.city = "Pune"

HasId(customer) == customer.id # 0 \/ customer.woo_customer_id # 0

\* the creation timestamp the input gives: created_at before date_created
ExplicitCreation(customer) ==
  IF customer.created_at # "" THEN customer.created_at
  ELSE customer.date_created

\* C24 as stated: an input with an id or a foreign customer id yields a record
\* without created_at; an input with neither yields the explicit creation
\* timestamp if given, else the current time.
C24_CreatedAtOnFirstCreationOnly ==
  probe.sanitized # Null =>
    IF HasId(probe.customer)
    THEN "created_at" \notin DOMAIN probe.sanitized
    ELSE /\ "created_at" \in DOMAIN probe.sanitized
         /\ probe.sanitized.created_at =
              IF ExplicitCreation(probe.customer) # ""
              THEN ExplicitCreation(probe.customer)
              ELSE ToISOString(clock.now)

\* C24: the normalized record carries the explicit creation timestamp of the
\* input (created_at, else date_created) whenever the input gives one, with or
\* without an id; when the input gives none, created_at is the current time
\* for an input with neither id nor foreign customer id, and absent otherwise.
C24_CreatedAtExplicitElseNowWhenNew ==
  probe.sanitized # Null =>
    IF ExplicitCreation(probe.customer) # ""
    THEN /\ "created_at" \in DOMAIN probe.sanitized
         /\ probe.sanitized.created_at = ExplicitCreation(probe.customer)
    ELSE IF HasId(probe.customer)
    THEN "created_at" \notin DOMAIN probe.sanitized
    ELSE /\ "created_at" \in DOMAIN probe.sanitized
         /\ probe.sanitized.created_at = ToISOString(clock.now)

\* an existing customer's input with date_created only is normalized: the
\* record carries that date as created_at
C24_Witness ==
  /\ probe.sanitized # Null
  /\ probe.customer.id = 5
  /\ probe.customer.created_at = ""
  /\ probe.customer.date_created = "2023-06-01T00:00:00"
  /\ "created_at" \in DOMAIN probe.sanitized
  /\ probe.sanitized.created_at = "2023-06-01T00:00:00"


(***************************************************************************)
(* Deletions.                                                              *)
(***************************************************************************)
\* every row of the table is still at its place, with its foreign id
RowsKept(before, after, key) ==
  /\ Len(after) >= Len(before)
  /\ \A i \in 1 .. Len(before) : after[i][key] = before[i][key]

\* a step removes no row of either table and no remote customer
NothingRemoved ==
  /\ RowsKept(rows, rows', "woo_order_id")
  /\ RowsKept(custRows, custRows', "woo_customer_id")
  /\ \A id \in CustIds : wooCust[id].exists => wooCust'[id].exists
  /\ \A id \in OrderIds : woo[id].exists => woo'[id].exists

\* a customer-delete request is answered 405 and has called neither system
DeleteRejected ==
  \A t \in Tasks :
    tasks[t].kind = "deleteCustomer" =>
      /\ tasks[t].pc = "done"
      /\ tasks[t].resp.status = 405
      /\ tasks[t].resp.message = "Customer deletion is not allowed in POS"
      /\ tasks[t].remoteCalls = 0 /\ tasks[t].mirrorWrites = 0
      /\ tasks[t].up.st = "none" /\ tasks[t].cup.st = "none"

\* the step that takes a customer-delete request changes neither system
DeleteStepWritesNothing ==
  (\E t \in Tasks : tasks'[t].kind = "deleteCustomer"
                    /\ tasks'[t] # tasks[t]) =>
    UNCHANGED <<woo, rows, wooCust, custRows>>

\* C25: after any sequence of order-sync and customer-sync runs (with their
\* upsertOrder and upsertCustomer calls), patchOrderStatus calls and
\* customer-delete requests, no row has been removed from either table and no
\* remote customer has been deleted; a customer-delete request is always
\* answered 405 without a call to either system.
C25_PipelineNeverDeletes ==
  /\ [][NothingRemoved /\ DeleteStepWritesNothing]_vars
  /\ []DeleteRejected

\* a customer-delete request for a mirrored customer has been rejected, and the
\* customer and its row are still there
C25_Witness ==
  \E t \in Tasks :
    /\ tasks[t].kind = "deleteCustomer" /\ tasks[t].pc = "done"
    /\ tasks[t].resp.status = 405
    /\ wooCust[tasks[t].arg].exists
    /\ \E i \in 1 .. Len(custRows) :
         custRows[i].woo_customer_id = tasks[t].arg


\* C26: when the upsertOrder calls for one foreign id never overlap, then also
\* in executions where a lookup request fails, the table never holds two rows
\* with the same woo_order_id: a call that found at most one row for its id
\* leaves at most one, and it sends an insert only when the table had no row
\* for the id at its lookup.
C26_NoDuplicateRowsWithoutOverlap ==
  \A t \in Tasks :
    LET up == tasks[t].up IN
    (up.st = "ret" /\ up.valid = "ok" /\ ~up.overlap) =>
      /\ up.rowsAtLookup <= 1 => up.rowsAfter <= 1
      /\ up.action = "created" => up.rowsAtLookup = 0


\* the loop of a sync run has handled the record at position i of its history
Handled(task, i) == i <= Len(task.visited) /\ i <= Len(task.results)

\* C27: validateOrderSchema counts a required field with a falsy value as
\* missing.  A normalized POS order with total 0 is rejected with
\* "Missing required fields: total": upsertOrder returns ok = false without a
\* request, a sync run counts the record as failed, and no write is ever sent
\* and no row ever stored for a remote order with total 0, whether by order
\* creation or by a reconciliation run.
C27_ZeroTotalRejectedAsMissing ==
  /\ \A t \in Tasks :
       LET up == tasks[t].up IN
       (up.st = "ret" /\ up.order # Null /\ up.order.total = 0) =>
         /\ up.valid = "Missing required fields: total"
         /\ ~up.ok /\ ~up.thrown /\ up.error = up.valid
         /\ up.reqs = 0 /\ up.action = "-"
  /\ \A t \in Tasks : \A i \in 1 .. Len(tasks[t].results) :
       (/\ tasks[t].kind \in SyncKinds /\ Handled(tasks[t], i)
        /\ IsPosOrder(tasks[t].list[tasks[t].visited[i]])
        /\ NumberOf(tasks[t].list[tasks[t].visited[i]].total) = 0) =>
         tasks[t].results[i] = "failed"
  /\ \A fid \in Existing(woo) :
       NumberOf(woo[fid].total) = 0 =>
         fid \notin issued /\ CountRows(rows, fid) = 0

\* an order with total 0 was created through POST /orders, its mirror write was
\* rejected, and a later sync run met it and failed on it too: it has no row
C27_Witness ==
  \E a, b \in Tasks :
    /\ tasks[a].kind = "createOrder" /\ tasks[a].pc = "done"
    /\ tasks[a].up.st = "ret" /\ tasks[a].up.order # Null
    /\ tasks[a].up.order.total = 0
    /\ tasks[a].up.valid = "Missing required fields: total"
    /\ tasks[b].kind \in SyncKinds /\ tasks[b].pc = "done"
    /\ \E i \in 1 .. Len(tasks[b].results) :
         /\ Handled(tasks[b], i)
         /\ tasks[b].list[tasks[b].visited[i]].id = tasks[a].up.order.woo_order_id
         /\ tasks[b].results[i] = "failed"
    /\ CountRows(rows, tasks[a].up.order.woo_order_id) = 0


(***************************************************************************)
(* Order of the writes in the POS handlers.                                *)
(***************************************************************************)
\* the order creation in slot t has sent a request to the secondary store
MirrorRequested(task) == task.up.st # "none" /\ task.up.reqs > 0

\* what holds of every order creation, finished or not
CreateOrderState ==
  \A t \in Tasks :
    tasks[t].kind = "createOrder" =>
      /\ MirrorRequested(tasks[t]) => tasks[t].remoteOk
      /\ (tasks[t].pc = "done" /\ ~tasks[t].remoteOk) =>
           /\ tasks[t].resp.status \in {400, 500}
           /\ ~tasks[t].resp.woo_ok /\ ~tasks[t].resp.baserow_ok
           /\ tasks[t].up.st = "none"
      /\ tasks[t].resp.status = 400 =>
           /\ tasks[t].resp.message = "Items are required"
           /\ ~tasks[t].remoteOk /\ tasks[t].up.st = "none"

\* a step in which an order creation ends without a successful remote create
\* (the 400 of the items check, the 500 after a failed remote create) changes
\* neither system; a step that sends the first mirror request of an order
\* creation comes after the remote create
CreateOrderStep ==
  \A t \in Tasks :
    /\ (/\ tasks'[t].kind = "createOrder" /\ tasks'[t].pc = "done"
        /\ tasks[t].pc # "done" \/ tasks[t].kind # "createOrder"
        /\ ~tasks'[t].remoteOk) =>
         rows' = rows /\ woo' = woo
    /\ (/\ tasks'[t].kind = "createOrder"
        /\ rows' # rows /\ tasks[t].up.st = "write") =>
         /\ tasks[t].remoteOk
         /\ woo[tasks[t].up.fid].exists

\* C28: order creation writes the remote system first.  A request to the
\* secondary store is sent only after the remote create succeeded; when the
\* remote create fails the request ends 500 with woo.ok = false and
\* baserow.ok = false and the secondary store is unchanged; a request without
\* items is answered 400 before any call to either system.
C28_RemoteFirstInOrderCreation ==
  /\ []CreateOrderState
  /\ [][CreateOrderStep /\ (rows' # rows =>
                              \E t \in Tasks : tasks[t].up.st = "write")]_vars

\* one order creation ended 500 after a failed remote create, without a
\* request to the store; another was created remotely and then mirrored
C28_Witness ==
  \E a, b \in Tasks :
    /\ tasks[a].kind = "createOrder" /\ tasks[a].pc = "done"
    /\ tasks[a].resp.status = 500 /\ ~tasks[a].remoteOk
    /\ tasks[a].up.st = "none"
    /\ tasks[b].kind = "createOrder" /\ tasks[b].pc = "done"
    /\ tasks[b].resp.status = 201 /\ tasks[b].remoteOk
    /\ tasks[b].up.action = "created"
    /\ CountRows(rows, tasks[b].up.fid) = 1


\* the first mirror row of the order is there and is neither completed nor
\* cancelled
OpenMirrorRow(rs, fid) ==
  LET found == GetOrderByWooId(rs, fid, TRUE) IN
  found # 0 /\ rs[found].status \notin {"completed", "cancelled"}

\* what holds of every mark-completed request, finished or not
CompleteState ==
  \A t \in Tasks :
    tasks[t].kind = "completeOrder" =>
      /\ tasks[t].pc \in {"patch_lookup", "patch_write"} =>
           tasks[t].remoteOk /\ woo[tasks[t].arg].status = "completed"
      /\ (tasks[t].pc = "done" /\ tasks[t].resp.status = 404) =>
           ~tasks[t].remoteOk /\ tasks[t].existing = Null
      /\ (tasks[t].pc = "done"
          /\ tasks[t].resp.message = "Order already finalized") =>
           /\ ~tasks[t].remoteOk /\ tasks[t].existing = Null
           /\ tasks[t].resp.order.status \in {"completed", "cancelled"}
      /\ (tasks[t].pc = "done" /\ ~tasks[t].remoteOk) =>
           tasks[t].existing = Null

\* the steps of a mark-completed request: the lookup writes nothing and goes on
\* to the remote update only for an open mirror row; the remote update leaves
\* the table alone and ends the request when it fails; the table is patched
\* only in the step after the lookup of patchOrderStatus
CompleteStep ==
  \A t \in Tasks :
    tasks[t].kind = "completeOrder" =>
      /\ (tasks[t].pc = "complete_lookup" /\ tasks'[t] # tasks[t]) =>
           /\ woo' = woo /\ rows' = rows
           /\ tasks'[t].pc \in {"done", "complete_remote"}
           /\ tasks'[t].pc = "complete_remote" =>
                OpenMirrorRow(rows, tasks[t].arg)
      /\ (tasks[t].pc = "complete_remote" /\ tasks'[t] # tasks[t]) =>
           /\ rows' = rows
           /\ \/ /\ tasks'[t].pc = "patch_lookup" /\ tasks'[t].remoteOk
                 /\ woo'[tasks[t].arg].status = "completed"
              \/ /\ tasks'[t].pc = "done" /\ tasks'[t].resp.status = 500
                 /\ ~tasks'[t].remoteOk /\ woo' = woo
      /\ (tasks[t].pc = "patch_write" /\ tasks'[t].pc = "done"
          /\ rows' # rows) =>
           /\ tasks[t].remoteOk
           /\ rows'[tasks[t].existing.id].status = "completed"

\* C29: marking an order completed writes to neither system when the order
\* has no mirror row (404) or when its mirror row is already completed or
\* cancelled ("already finalized"); otherwise the remote status update comes
\* before the mirror status patch, and the patch is not attempted when the
\* remote update fails.
C29_CompleteWritesRemoteThenMirror ==
  /\ []CompleteState
  /\ [][CompleteStep]_vars

\* one request completed the order in both systems; a request for the same
\* order that came after it was answered "already finalized"
C29_Witness ==
  \E a, b \in Tasks :
    /\ tasks[a].kind = "completeOrder" /\ tasks[a].pc = "done"
    /\ tasks[a].resp.message = "Order marked as completed"
    /\ tasks[a].remoteOk
    /\ tasks[b].kind = "completeOrder" /\ tasks[b].pc = "done"
    /\ tasks[b].arg = tasks[a].arg
    /\ tasks[b].resp.message = "Order already finalized"
    /\ ~tasks[b].remoteOk
    /\ ~OpenMirrorRow(rows, tasks[a].arg)


(***************************************************************************)
(* upsertCustomer for records without an id.                               *)
(***************************************************************************)
\* the call in slot t is for a record with neither woo_customer_id nor id
WithoutId(task) ==
  /\ task.kind = "upsertCustomer"
  /\ task.cup.st # "none"
  /\ task.cup.sanitized.woo_customer_id = 0

\* such a call never looks a row up and has no existing row to patch
NoLookupWithoutId ==
  \A t \in Tasks :
    WithoutId(tasks[t]) =>
      /\ tasks[t].cup.st # "lookup"
      /\ tasks[t].cup.existing = 0
      /\ tasks[t].cup.reqs = 1

\* the answered write of such a call appends its record to the table, whatever
\* rows the table holds
InsertsWithoutId ==
  \A t \in Tasks :
    (/\ WithoutId(tasks[t]) /\ tasks[t].cup.st = "write"
     /\ tasks'[t].cup.st = "ret" /\ ~tasks'[t].cup.thrown) =>
      /\ custRows' = Append(custRows, tasks[t].cup.sanitized)
      /\ tasks'[t].cup.data = tasks[t].cup.sanitized

\* C30: upsertCustomer looks a row up only by woo_customer_id.  For a record
\* with neither woo_customer_id nor id it sends no lookup, by phone or
\* otherwise, and its write is always an insert: every answered call adds one
\* row, so k calls in sequence with the same record add k rows.
C30_NoIdAlwaysInserts ==
  /\ []NoLookupWithoutId
  /\ [][InsertsWithoutId]_vars

\* two calls with the same record without an id have returned, and the table
\* holds the record twice
C30_Witness ==
  /\ \A t \in Tasks :
       /\ WithoutId(tasks[t]) /\ tasks[t].pc = "done"
       /\ ~tasks[t].cup.thrown
       /\ tasks[t].cust = WooCustomer(0, "Meera", "55", TRUE)
  /\ Len(custRows) = 2
  /\ custRows[1] = custRows[2]
  /\ custRows[1].phone = "55" /\ custRows[1].woo_customer_id = 0

====
